---- MODULE Spec2Model ----
(***************************************************************************)
(* Model of the OCR conversion / text export pipeline of pdf-viewer-app:   *)
(*   lib/pdf/info.py   quick_pdf_info      (classifier)                    *)
(*   lib/pdf/ocr.py    run_ocr             (two-tier OCR execution)        *)
(*   lib/pdf/paths.py  path derivation and enumeration                     *)
(*   lib/pdf/text.py   extract_text_pdf, write_text_file                   *)
(*   lib/app_paths.py  _resolve, AppPaths.__init__  (the four roots)       *)
(*   lib/pdf/cache.py  cache_data          (memoization of the classifier) *)
(*   pages/20_PDF_OCR変換.py  the page script: enumerate, plan, OCR loop,  *)
(*                            text export loop                             *)
(*   pages/30_PDFテキストビューア.py  the text lookup of the viewer        *)
(*                                                                         *)
(* Specifications: Spec, SpecDisk and SpecNested run the page script       *)
(* (SpecDisk on a disk that earlier sessions wrote to or with a source     *)
(* root that is missing, SpecNested with the converted root inside the     *)
(* source root); SpecClassify, SpecOcr, SpecPaths, SpecEnum, SpecText and  *)
(* SpecRoots call one library function on every small input; SpecCache     *)
(* calls the memoized classifier on a file that is replaced between calls. *)
(*                                                                         *)
(* Paths are sequences of components; a component is a sequence of tokens  *)
(* ("a", "_converted", ".pdf", ...).  Tokens have pairwise different       *)
(* leading characters (or differ on the second one for the extensions), so *)
(* the token-wise order below is the character-wise order of the names.    *)
(* A PDF is abstracted to whether it can be opened and, per page, the      *)
(* length of its stripped text (PageErr when get_text raises); a text is   *)
(* the sequence of the lengths of its lines, <<>> being the empty string.  *)
(* A threshold / ratio is an exact fraction [num, den]; for fractions with  *)
(* small terms the correctly rounded float division and comparison of the  *)
(* code decide the same way.                                               *)
(*                                                                         *)
(* Environment: directory creation and file writes succeed; a run_ocr that *)
(* raises leaves the destination as it was and a run_ocr that returns has  *)
(* written the destination (and the sidecar when one was requested); the   *)
(* source tree changes only through the script, and no engine writes its   *)
(* output onto a path that is a directory.  In the page specifications     *)
(* every classification is computed from the file as it is (a cache that   *)
(* never serves a stale entry).  While no script runs the script's locals  *)
(* and the widget values hold their initial values.                        *)
(***************************************************************************)
EXTENDS Integers, Sequences, FiniteSets, TLC

VARIABLES
  \* ---- file system
  files,          \* path -> [kind, open, pages]   every regular file on disk
  dirs,           \* set of existing directories
  \* ---- widget values of the page (sidebar)
  src_root, dst_root, txt_root,
  name_filter, year_filter,
  overwrite_pdf, save_sidecar, do_text_export,
  do_convert, do_text,
  \* ---- the running script
  pc,             \* "idle" | "planned" | "exec" | "export"
  src_files,      \* enumeration after the filters
  rows,           \* the plan
  i,              \* position of the running loop
  ok, ng, skip, logs,
  text_ok, text_skip, text_ng,
  msg,            \* last top-level message of the page
  \* ---- observation of the calls made by the running script
  ocr_hist,       \* run_ocr calls of this run: [src, dst, raised]
  ext_hist,       \* extract_text_pdf calls of this run
  writes,         \* paths of the files written by this run, in order
  prev,           \* src -> outcome of the last executed OCR loop
  runs,           \* number of reruns of the script so far
  \* ---- classifier under test (SpecClassify)
  c_doc, c_mtime, c_sample, c_thr, c_res,
  \* ---- OCR engine under test (SpecOcr)
  o_env, o_pc, o_trace, o_res,
  \* ---- path derivation under test (SpecPaths)
  p_src, p_sroot, p_droot, p_troot,
  p_out,          \* results of the calls made so far
  \* ---- enumeration under test (SpecEnum)
  e_fs, e_ds, e_root,
  e_calls,        \* results of the iter_pdfs calls made so far
  \* ---- text extraction under test (SpecText)
  x_fs, x_pdf, x_sidecar, x_res,
  \* ---- root resolution under test (SpecRoots)
  a_settings, a_fail, a_roots, a_dirs,
  \* ---- cached classification under test (SpecCache)
  k_file,         \* the PDF at one path: [doc, mtime]
  k_versions,     \* every [doc, mtime] the path has held
  k_cache,        \* st.cache_data store: key -> result
  k_used          \* classification the last plan got for the path

fsVars   == <<files, dirs>>
uiVars   == <<src_root, dst_root, txt_root, name_filter, year_filter,
              overwrite_pdf, save_sidecar, do_text_export, do_convert, do_text>>
runVars  == <<pc, src_files, rows, i, ok, ng, skip, logs,
              text_ok, text_skip, text_ng, msg>>
obsVars  == <<ocr_hist, ext_hist, writes, prev, runs>>
clsVars  == <<c_doc, c_mtime, c_sample, c_thr, c_res>>
ocrVars  == <<o_env, o_pc, o_trace, o_res>>
pthVars  == <<p_src, p_sroot, p_droot, p_troot, p_out>>
enuVars  == <<e_fs, e_ds, e_root, e_calls>>
txtVars  == <<x_fs, x_pdf, x_sidecar, x_res>>
cfgVars  == <<a_settings, a_fail, a_roots, a_dirs>>
cchVars  == <<k_file, k_versions, k_cache, k_used>>
unitVars == <<pthVars, enuVars, txtVars, cfgVars, cchVars>>
pageVars == <<fsVars, uiVars, runVars, obsVars>>
vars     == <<fsVars, uiVars, runVars, obsVars, clsVars, ocrVars, unitVars>>

----------------------------------------------------------------------------
(* Bounds of the model *)
MaxPages  == 6     \* longest document given to the classifier
MaxSample == 7     \* largest sample_pages given to the classifier
MaxFiles  == 2     \* most PDFs in the source tree
MaxRuns   == 2     \* most reruns of the page script in one behaviour
MaxMtime  == 2     \* largest modification time of a file

(* Program constants *)
MinTextLen         == 20    \* info.py:69   a page is textful at >= 20 characters
DefaultSamplePages == 6     \* info.py:36
PageErr            == -1    \* marks a page whose get_text raises

DefaultThreshold == [num |-> 3, den |-> 10]   \* info.py:37   0.3

Min(a, b) == IF a <= b THEN a ELSE b
Max(a, b) == IF a >= b THEN a ELSE b
Last(s)   == s[Len(s)]
Front(s)  == SubSeq(s, 1, Len(s) - 1)

----------------------------------------------------------------------------
(* lib/pdf/info.py *)

\* comparison of two fractions with positive denominators
RatGE(a, b) == a.num * b.den >= b.num * a.den

Unreadable == [kind |-> "pdf", open |-> FALSE, pages |-> <<>>]

\* doc.load_page(k).get_text("text") for the 0-based page k; raises for a page
\* outside the document and for a page whose extraction fails
PageRaises(doc, k) == k + 1 > Len(doc.pages) \/ doc.pages[k + 1] = PageErr

\* one turn of "for i in range(check)": the try body and the swallowing except
RECURSIVE CountTextPagesAbort(_, _, _)
CountTextPagesAbort(doc, k, check) ==
  IF k >= check THEN 0
  ELSE IF PageRaises(doc, k) THEN 0
       ELSE (IF doc.pages[k + 1] >= MinTextLen THEN 1 ELSE 0)
              + CountTextPagesAbort(doc, k + 1, check)

RECURSIVE CountTextPages(_, _, _)
CountTextPages(doc, k, check) ==
  IF k >= check THEN 0
  ELSE (IF PageRaises(doc, k) THEN 0
        ELSE IF doc.pages[k + 1] >= MinTextLen THEN 1 ELSE 0)
         + CountTextPages(doc, k + 1, check)

OpenFailureInfoText ==
  [pages |-> 0, kind |-> "TEXT_PDF", text_ratio |-> [num |-> 0, den |-> 1], checked |-> 0]

OpenFailureInfo ==
  [pages |-> 0, kind |-> "IMAGE_PDF", text_ratio |-> [num |-> 0, den |-> 1], checked |-> 0]

KindOfStrict(ratio, thr) == IF ~RatGE(thr, ratio) THEN "TEXT_PDF" ELSE "IMAGE_PDF"

KindOf(ratio, thr) == IF RatGE(ratio, thr) THEN "TEXT_PDF" ELSE "IMAGE_PDF"

SampleCountAll(sample_pages, n) == Max(n, 1)

\* check = min(sample_pages, max(n, 1))
SampleCount(sample_pages, n) == Min(sample_pages, Max(n, 1))

\* p.stat().st_mtime_ns of a file; a disk whose files carry no time stamp
\* gives every file the same one
st_mtime_ns(f) == IF "mtime" \in DOMAIN f THEN f.mtime ELSE 0

quick_pdf_info_stamped(doc, mtime_ns, sample_pages, thr) ==
  [pages |-> Len(doc.pages), kind |-> "IMAGE_PDF",
   text_ratio |-> [num |-> 0, den |-> 1], checked |-> mtime_ns]

\* the function under the cache decorator; mtime_ns is a parameter that the
\* body never reads
quick_pdf_info(doc, mtime_ns, sample_pages, thr) ==
  IF ~doc.open THEN OpenFailureInfo
  ELSE LET n          == Len(doc.pages)
           check      == SampleCount(sample_pages, n)
           text_pages == CountTextPages(doc, 0, check)
           ratio      == [num |-> text_pages, den |-> Max(check, 1)]
       IN  [pages |-> n, kind |-> KindOf(ratio, thr),
            text_ratio |-> ratio, checked |-> check]

----------------------------------------------------------------------------
(* lib/pdf/paths.py *)

\* rank of a token in character order:
\* '.' < '/' < '2' < '_' < 'a' < 'b' < 'c' < 'p' < 't'
TokRank(t) ==
  CASE t = ".pdf"          -> 1
    [] t = ".sidecar"      -> 2
    [] t = ".txt"          -> 3
    [] t = "/"             -> 4
    [] t = "2024"          -> 5
    [] t = "_converted"    -> 6
    [] t = "a"             -> 7
    [] t = "b"             -> 8
    [] t = "converted_pdf" -> 9
    [] t = "pdf"           -> 10
    [] t = "text"          -> 11

\* str.__lt__ on two names
RECURSIVE NameLT(_, _)
NameLT(x, y) ==
  IF x = <<>> THEN y # <<>>
  ELSE IF y = <<>> THEN FALSE
  ELSE IF Head(x) = Head(y) THEN NameLT(Tail(x), Tail(y))
  ELSE TokRank(Head(x)) < TokRank(Head(y))

\* PurePath.__lt__ : the tuples of components are compared
RECURSIVE PathLT(_, _)
PathLT(p, q) ==
  IF p = <<>> THEN q # <<>>
  ELSE IF q = <<>> THEN FALSE
  ELSE IF Head(p) = Head(q) THEN PathLT(Tail(p), Tail(q))
  ELSE NameLT(Head(p), Head(q))

IsExt(t) == t \in {".pdf", ".sidecar", ".txt"}

Name(p)   == Last(p)                                        \* Path.name
Parent(p) == Front(p)                                       \* Path.parent
Suffix(p) == IF Len(Name(p)) > 1 /\ IsExt(Last(Name(p)))    \* Path.suffix
             THEN <<Last(Name(p))>> ELSE <<>>
Stem(p)   == IF Suffix(p) = <<>> THEN Name(p) ELSE Front(Name(p))   \* Path.stem
WithName(p, name)  == Append(Front(p), name)                \* Path.with_name
WithSuffix(p, suf) == WithName(p, Stem(p) \o suf)           \* Path.with_suffix

EndsWithConvertedNever(stem) == FALSE

EndsWithConverted(stem) == stem # <<>> /\ Last(stem) = "_converted"

IsUnder(p, base) ==                                  \* relative_to does not raise
  Len(base) <= Len(p) /\ SubSeq(p, 1, Len(base)) = base
RelativeTo(p, base) == SubSeq(p, Len(base) + 1, Len(p))

\* every ancestor directory of p, p included (mkdir(parents=True, exist_ok=True))
Ancestors(d) == {SubSeq(d, 1, k) : k \in 1..Len(d)}

rel_from(path, base) ==
  IF IsUnder(path, base) THEN RelativeTo(path, base) ELSE <<Name(path)>>

\* sorted(S) for a set of paths
RECURSIVE SortedDesc(_)
SortedDesc(S) ==
  IF S = {} THEN <<>>
  ELSE LET m == CHOOSE x \in S : \A y \in S \ {x} : PathLT(y, x)
       IN  <<m>> \o SortedDesc(S \ {m})

RECURSIVE Sorted(_)
Sorted(S) ==
  IF S = {} THEN <<>>
  ELSE LET m == CHOOSE x \in S : \A y \in S \ {x} : PathLT(x, y)
       IN  <<m>> \o Sorted(S \ {m})

\* root.rglob("*.pdf") : the files and the directories below root whose name
\* ends in .pdf
RGlobPdf(fs, ds, root) ==
  {p \in DOMAIN fs \cup ds :
     IsUnder(p, root) /\ Len(p) > Len(root) /\ Suffix(p) = <<".pdf">>}

iter_pdfs_glob(fs, ds, root) ==
  IF root \notin ds THEN <<>>
  ELSE Sorted({p \in RGlobPdf(fs, ds, root) : Len(p) = Len(root) + 1})

iter_pdfs(fs, ds, root) ==
  IF root \notin ds THEN <<>> ELSE Sorted(RGlobPdf(fs, ds, root))

make_converted_path_flat(src_path, sroot, droot) ==
  WithName(droot \o <<Name(src_path)>>, Stem(src_path) \o <<"_converted", ".pdf">>)

make_converted_path(src_path, sroot, droot) ==
  LET rel == IF IsUnder(src_path, sroot) THEN RelativeTo(src_path, sroot)
             ELSE <<Name(src_path)>>
  IN  WithName(droot \o rel, Stem(src_path) \o <<"_converted", ".pdf">>)

make_text_path_dst_first(source_pdf, sroot, droot, troot) ==
  LET base == IF IsUnder(source_pdf, droot)
                THEN troot \o RelativeTo(source_pdf, droot)
              ELSE IF IsUnder(source_pdf, sroot)
                THEN troot \o RelativeTo(source_pdf, sroot)
              ELSE troot \o <<Name(source_pdf)>>
  IN  WithSuffix(base, <<".txt">>)

make_text_path(source_pdf, sroot, droot, troot) ==
  LET base == IF IsUnder(source_pdf, sroot)
                THEN troot \o RelativeTo(source_pdf, sroot)
              ELSE IF IsUnder(source_pdf, droot)
                THEN troot \o RelativeTo(source_pdf, droot)
              ELSE troot \o <<Name(source_pdf)>>
  IN  WithSuffix(base, <<".txt">>)

----------------------------------------------------------------------------
(* lib/pdf/ocr.py *)

\* What the host does when run_ocr is called: env.py is the outcome of the
\* in-process ocrmypdf.ocr call ("raise" covers a failing import), env.exe
\* whether shutil.which finds the executable, env.rc the exit code of the
\* subprocess, env.stderr and env.stdout what the subprocess printed, and
\* env.text_len the length of the text recognised on a page (a successful OCR
\* is taken to recognise a textful page).
OcrHosts ==
  [py : {"ok", "raise"}, exe : BOOLEAN, rc : {0, 1}, text_len : {MinTextLen},
   stderr : {"", "captured stderr"}, stdout : {"", "captured stdout"}]

\* the hosts met by the page: a failing subprocess prints to stderr
OcrEnvs == {e \in OcrHosts : e.stderr # "" /\ e.stdout = ""}

NotFoundMsg == "ocrmypdf not found"       \* ocr.py:101
FailedMsg   == "ocrmypdf failed"          \* ocr.py:115, when nothing was printed

OcrOpts ==
  [lang : {"jpn+eng"}, optimize : 0..3, jobs : {1, 2},
   rotate_pages : BOOLEAN, sidecar : BOOLEAN]

\* the keyword arguments of ocrmypdf.ocr(str(src), str(dst), **kwargs)
PyKwargs(o) ==
  [language |-> o.lang, output_type |-> "pdf", optimize |-> o.optimize,
   deskew |-> TRUE, clean |-> TRUE, progress_bar |-> FALSE, jobs |-> o.jobs,
   force_ocr |-> TRUE, skip_text |-> FALSE]
  @@ (IF o.rotate_pages THEN [rotate_pages |-> TRUE] ELSE << >>)
  @@ (IF o.sidecar THEN [sidecar |-> "SIDECAR"] ELSE << >>)

\* the positional arguments of ocrmypdf.ocr: str(src), str(dst)
PyArgs == <<"SRC", "DST">>

CliCmdKeepText(o) ==
  <<"--language", o.lang, "--output-type", "pdf", "--deskew", "--clean",
    "--optimize", ToString(o.optimize), "--jobs", ToString(o.jobs), "--skip-text">>
  \o (IF o.rotate_pages THEN <<"--rotate-pages">> ELSE <<>>)
  \o (IF o.sidecar THEN <<"--sidecar", "SIDECAR">> ELSE <<>>)
  \o <<"SRC", "DST">>

\* the argument vector of the subprocess, without the executable
CliCmd(o) ==
  <<"--language", o.lang, "--output-type", "pdf", "--deskew", "--clean",
    "--optimize", ToString(o.optimize), "--jobs", ToString(o.jobs), "--force-ocr">>
  \o (IF o.rotate_pages THEN <<"--rotate-pages">> ELSE <<>>)
  \o (IF o.sidecar THEN <<"--sidecar", "SIDECAR">> ELSE <<>>)
  \o <<"SRC", "DST">>

_run_python(env) ==
  [raised |-> env.py = "raise", err |-> IF env.py = "raise" THEN "python_error" ELSE "none"]

_run_cli_stdout_first(env) ==
  IF ~env.exe THEN [raised |-> TRUE, err |-> NotFoundMsg, started |-> FALSE]
  ELSE IF env.rc # 0
    THEN [raised |-> TRUE, started |-> TRUE,
          err |-> IF env.stdout # "" THEN env.stdout
                  ELSE IF env.stderr # "" THEN env.stderr ELSE FailedMsg]
  ELSE [raised |-> FALSE, err |-> "none", started |-> TRUE]

\* raise RuntimeError(res.stderr or res.stdout or "...") when returncode != 0
_run_cli(env) ==
  IF ~env.exe THEN [raised |-> TRUE, err |-> NotFoundMsg, started |-> FALSE]
  ELSE IF env.rc # 0
    THEN [raised |-> TRUE, started |-> TRUE,
          err |-> IF env.stderr # "" THEN env.stderr
                  ELSE IF env.stdout # "" THEN env.stdout ELSE FailedMsg]
  ELSE [raised |-> FALSE, err |-> "none", started |-> TRUE]

run_ocr_python_only(env) ==
  [raised |-> _run_python(env).raised, err |-> _run_python(env).err,
   tiers |-> <<"python">>, started |-> FALSE]

\* try: _run_python(...)  except Exception: _run_cli(...)
run_ocr(env) ==
  IF ~_run_python(env).raised
    THEN [raised |-> FALSE, err |-> "none", tiers |-> <<"python">>, started |-> FALSE]
    ELSE [raised |-> _run_cli(env).raised, err |-> _run_cli(env).err,
          tiers |-> <<"python", "cli">>, started |-> _run_cli(env).started]

\* the converted PDF written by a successful OCR: one text layer per page
OcrOutput(srcdoc, env) ==
  [kind |-> "pdf", open |-> TRUE,
   pages |-> [k \in 1..Max(Len(srcdoc.pages), 1) |-> env.text_len]]

----------------------------------------------------------------------------
(* lib/pdf/text.py *)

\* str.strip() on a text given as the lengths of its lines
RECURSIVE StripLead(_)
StripLead(t) == IF t # <<>> /\ Head(t) = 0 THEN StripLead(Tail(t)) ELSE t
RECURSIVE StripTrail(_)
StripTrail(t) == IF t # <<>> /\ Last(t) = 0 THEN StripTrail(Front(t)) ELSE t
Strip(t) == StripTrail(StripLead(t))

\* "\n".join(parts).strip() over every page; "" when the PDF cannot be opened
DirectText(fs, p_pdf) ==
  IF p_pdf \notin DOMAIN fs \/ ~fs[p_pdf].open THEN <<>>
  ELSE Strip([k \in 1..Len(fs[p_pdf].pages) |->
                IF fs[p_pdf].pages[k] = PageErr THEN 0 ELSE fs[p_pdf].pages[k]])

NoSidecar == <<>>    \* sidecar=None

\* a file that exists and whose read_text raises (no permission)
LockedFile == [kind |-> "locked", open |-> FALSE, pages |-> <<>>]

\* line 57: if not text and sidecar and sidecar.exists()
SidecarRead(fs, p_pdf, sidecar) ==
  DirectText(fs, p_pdf) = <<>> /\ sidecar # NoSidecar /\ sidecar \in DOMAIN fs

extract_text_pdf_no_fallback(fs, p_pdf, sidecar) == DirectText(fs, p_pdf)

extract_text_pdf(fs, p_pdf, sidecar) ==
  LET text == DirectText(fs, p_pdf)
  IN  IF SidecarRead(fs, p_pdf, sidecar)
        THEN (IF fs[sidecar] = LockedFile THEN text ELSE Strip(fs[sidecar].pages))
        ELSE text

Put(f, k, v) == [x \in DOMAIN f \cup {k} |-> IF x = k THEN v ELSE f[x]]

TextFile(content) == [kind |-> "txt", open |-> FALSE, pages |-> content]

write_text_file_fs_none(fs, txt_path, content) == fs

\* txt_path.parent.mkdir(parents=True, exist_ok=True); txt_path.write_text(content)
write_text_file_fs(fs, txt_path, content) == Put(fs, txt_path, TextFile(content))
write_text_file_dirs(ds, txt_path) == ds \cup Ancestors(Parent(txt_path))

----------------------------------------------------------------------------
(* pages/20_PDF_OCR変換.py : enumeration and plan (lines 110-153) *)

Exists(fs, ds, p) == p \in DOMAIN fs \/ p \in ds        \* Path.exists()

NoFilter == ""

\* name_filter.lower() in p.name.lower(), the filter being one token
NameMatches(p, f) == \E k \in 1..Len(Name(p)) : Name(p)[k] = f

\* any(part in years for part in parts[:2]) on the path relative to src_root
YearMatches(p, sroot, years) ==
  LET parts == IF IsUnder(p, sroot) THEN RelativeTo(p, sroot) ELSE p
  IN  \E k \in 1..Min(2, Len(parts)) : \E y \in years : parts[k] = <<y>>

Enumerate(fs, ds, sroot, nf, yf) ==
  LET all    == iter_pdfs(fs, ds, sroot)
      ByName(p) == NameMatches(p, nf)
      ByYear(p) == YearMatches(p, sroot, {yf})
      named  == IF nf # NoFilter THEN SelectSeq(all, ByName) ELSE all
  IN  IF yf # NoFilter THEN SelectSeq(named, ByYear) ELSE named

StatusIgnoringOverwrite(fs, ds, out_path, ow) ==
  IF Exists(fs, ds, out_path) THEN "OUTPUT_EXISTS_SKIP" ELSE "UNCONVERTED"

StatusOfPlanned(fs, ds, out_path, ow) ==
  IF Exists(fs, ds, out_path)
    THEN (IF ~ow THEN "OUTPUT_EXISTS_SKIP" ELSE "OUTPUT_EXISTS_OVERWRITE")
    ELSE "UNCONVERTED"

\* the body of "for p in src_files" at lines 135-153; <<>> when p is dropped
PlanRow(fs, ds, p, sroot, droot, ow) ==
  IF EndsWithConverted(Stem(p)) THEN <<>>
  ELSE LET info == quick_pdf_info(fs[p], st_mtime_ns(fs[p]),
                                  DefaultSamplePages, DefaultThreshold)
           out_path == make_converted_path(p, sroot, droot)
       IN  IF info.kind # "IMAGE_PDF" THEN <<>>
           ELSE << [src_rel |-> rel_from(p, sroot),
                    dst_rel |-> rel_from(out_path, droot),
                    pages   |-> info.pages,
                    status  |-> StatusOfPlanned(fs, ds, out_path, ow),
                    src     |-> p,
                    dst     |-> out_path] >>

RECURSIVE PlanRows(_, _, _, _, _, _)
PlanRows(fs, ds, l, sroot, droot, ow) ==
  IF l = <<>> THEN <<>>
  ELSE PlanRow(fs, ds, Head(l), sroot, droot, ow)
         \o PlanRows(fs, ds, Tail(l), sroot, droot, ow)

PlanDirsNone(rs) == {}

\* directories made by out_path.parent.mkdir(parents=True, exist_ok=True)
PlanDirs(rs) == UNION {Ancestors(Parent(rs[k].dst)) : k \in 1..Len(rs)}

\* values of the script's locals and of the widgets while no script runs
NoRun ==
  /\ name_filter' = NoFilter /\ year_filter' = NoFilter
  /\ overwrite_pdf' = FALSE /\ save_sidecar' = FALSE /\ do_text_export' = FALSE
  /\ do_convert' = FALSE /\ do_text' = FALSE
  /\ src_files' = <<>> /\ rows' = <<>> /\ i' = 1
  /\ ok' = 0 /\ ng' = 0 /\ skip' = 0 /\ logs' = <<>>
  /\ text_ok' = 0 /\ text_skip' = 0 /\ text_ng' = 0
  /\ ocr_hist' = <<>> /\ ext_hist' = <<>> /\ writes' = <<>>

\* What the user does before a rerun: the widget values and the button.  The
\* checkboxes that the chosen button never reads are left unticked, and the two
\* filters are either both empty or both set.
RunInputs ==
  { in \in [btn : {"none", "convert", "text"}, ow : BOOLEAN, sc : BOOLEAN,
            te : BOOLEAN, nf : {NoFilter, "a"}, yf : {NoFilter, "2024"}] :
      /\ in.btn # "convert" => ~in.sc /\ ~in.te
      /\ in.btn = "text" => ~in.ow
      /\ in.nf = NoFilter <=> in.yf = NoFilter }

StopNever(l) == FALSE

\* line 128: if not src_files  (st.warning and st.stop follow)
StopNoTarget(l) == l = <<>>

\* One rerun of the script up to the buttons: the user sets the widgets and
\* possibly presses one button; the script enumerates, filters and plans.
Rerun ==
  /\ pc = "idle" /\ runs < MaxRuns
  /\ runs' = runs + 1
  /\ \E in \in RunInputs :
       LET ow == in.ow  sc == in.sc  te == in.te  btn == in.btn
           nf == in.nf  yf == in.yf
           l  == Enumerate(files, dirs, src_root, nf, yf)
           rs == PlanRows(files, dirs, l, src_root, dst_root, ow)
       IN  IF StopNoTarget(l)
             THEN \* st.warning; st.stop()
                  /\ msg' = "no_target" /\ pc' = "idle"
                  /\ NoRun
                  /\ dirs' = dirs
             ELSE /\ overwrite_pdf' = ow /\ save_sidecar' = sc /\ do_text_export' = te
                  /\ do_convert' = (btn = "convert") /\ do_text' = (btn = "text")
                  /\ name_filter' = nf /\ year_filter' = yf
                  /\ src_files' = l
                  /\ rows' = rs
                  /\ dirs' = dirs \cup PlanDirs(rs)
                  /\ msg' = IF rs = <<>> THEN "no_image_pdf" ELSE "plan"
                  /\ pc' = "planned"
                  /\ i' = 1
                  /\ ok' = 0 /\ ng' = 0 /\ skip' = 0 /\ logs' = <<>>
                  /\ text_ok' = 0 /\ text_skip' = 0 /\ text_ng' = 0
                  /\ ocr_hist' = <<>> /\ ext_hist' = <<>> /\ writes' = <<>>
  /\ UNCHANGED <<files, src_root, dst_root, txt_root, prev, clsVars, ocrVars, unitVars>>

\* lines 166 and 192: which button was pressed
Buttons ==
  /\ pc = "planned"
  /\ IF do_convert
       THEN /\ pc' = "exec"
            /\ UNCHANGED <<uiVars, src_files, rows, i, ok, ng, skip, logs,
                           text_ok, text_skip, text_ng, ocr_hist, ext_hist, writes>>
       ELSE IF do_text
       THEN /\ pc' = "export"
            /\ UNCHANGED <<uiVars, src_files, rows, i, ok, ng, skip, logs,
                           text_ok, text_skip, text_ng, ocr_hist, ext_hist, writes>>
       ELSE /\ pc' = "idle" /\ NoRun
            /\ UNCHANGED <<src_root, dst_root, txt_root>>
  /\ UNCHANGED <<fsVars, msg, prev, runs, clsVars, ocrVars, unitVars>>

----------------------------------------------------------------------------
(* pages/20_PDF_OCR変換.py : OCR execution loop (lines 167-189) *)

LogLine(mark, rel, err) == [mark |-> mark, rel |-> rel, err |-> err]

NeverSkip(fs, ds, r, ow) == FALSE

SkipWhenOverwrite(fs, ds, r, ow) == Exists(fs, ds, r.dst) /\ ow

\* if dst.exists() and not overwrite_pdf
ShouldSkip(fs, ds, r, ow) == Exists(fs, ds, r.dst) /\ ~ow

SidecarOf(pdf) == WithSuffix(pdf, <<".sidecar", ".txt">>)

\* where the script goes when run_ocr raised
OnOcrExceptionPropagate(idx) == [pc |-> "idle", i |-> idx, ng |-> 0, msg |-> "uncaught"]

OnOcrExceptionNoCount(idx) == [pc |-> "exec", i |-> idx + 1, ng |-> 0, msg |-> "plan"]

\* except Exception as e: ng += 1; logs.append(...)   and the loop goes on
OnOcrException(idx) == [pc |-> "exec", i |-> idx + 1, ng |-> 1, msg |-> "plan"]

\* files after a successful run_ocr(src, dst, ..., sidecar_path=...)
AfterOcr(fs, r, env, sc) ==
  LET out  == OcrOutput(fs[r.src], env)
      fs1  == Put(fs, r.dst, out)
  IN  IF sc THEN Put(fs1, SidecarOf(r.dst), TextFile(Strip(out.pages))) ELSE fs1

ExecTask ==
  /\ pc = "exec" /\ i <= Len(rows)
  /\ LET r == rows[i] IN
       IF ShouldSkip(files, dirs, r, overwrite_pdf)
         THEN /\ skip' = skip + 1
              /\ logs' = Append(logs, LogLine("skip", r.src_rel, "none"))
              /\ i' = i + 1
              /\ UNCHANGED <<files, ok, ng, pc, msg, ocr_hist, writes>>
         ELSE \E env \in OcrEnvs :
                LET res == run_ocr(env)
                    exc == OnOcrException(i)
                    call == [src |-> r.src, dst |-> r.dst, raised |-> res.raised,
                             existed |-> Exists(files, dirs, r.dst)]
                IN  \* no engine writes its output onto a directory
                    /\ r.dst \in dirs => res.raised
                    /\ ocr_hist' = Append(ocr_hist, call)
                    /\ IF ~res.raised
                         THEN /\ files' = AfterOcr(files, r, env, save_sidecar)
                              /\ writes' = writes \o <<r.dst>>
                                     \o (IF save_sidecar THEN <<SidecarOf(r.dst)>> ELSE <<>>)
                              /\ ok' = ok + 1
                              /\ logs' = Append(logs, LogLine("ok", r.src_rel, "none"))
                              /\ i' = i + 1
                              /\ UNCHANGED <<ng, pc, msg>>
                         ELSE /\ ng' = ng + exc.ng
                              /\ logs' = Append(logs, LogLine("ng", r.src_rel, res.err))
                              /\ i' = exc.i /\ pc' = exc.pc /\ msg' = exc.msg
                              /\ UNCHANGED <<files, writes, ok>>
                    /\ UNCHANGED skip
  /\ UNCHANGED <<dirs, uiVars, src_files, rows, text_ok, text_skip, text_ng,
                 ext_hist, prev, runs, clsVars, ocrVars, unitVars>>

\* outcome of every task of the finished loop, by source
Outcomes(ls, rs) ==
  [p \in {rs[k].src : k \in 1..Len(rs)} |->
     LET k == CHOOSE k \in 1..Len(rs) : rs[k].src = p
     IN  IF k <= Len(ls) THEN ls[k].mark ELSE "none"]

\* lines 188-189: st.success(counters); st.code("\n".join(logs))
OcrReport ==
  [success |-> [ok |-> ok, ng |-> ng, skip |-> skip], code |-> logs]

\* st.success("OCR 完了: ..."); st.code(logs); then the export condition (line 192)
ExecDone ==
  /\ pc = "exec" /\ i > Len(rows)
  /\ msg' = "ocr_done"
  /\ prev' = Outcomes(logs, rows)
  /\ IF do_text_export
       THEN /\ pc' = "export" /\ i' = 1
            /\ UNCHANGED <<uiVars, src_files, rows, ok, ng, skip, logs,
                           text_ok, text_skip, text_ng, ocr_hist, ext_hist, writes>>
       ELSE /\ pc' = "idle" /\ NoRun
            /\ UNCHANGED <<src_root, dst_root, txt_root>>
  /\ UNCHANGED <<fsVars, runs, clsVars, ocrVars, unitVars>>

----------------------------------------------------------------------------
(* pages/20_PDF_OCR変換.py : text export loop (lines 192-210) *)

TextSourceOriginal(fs, ds, p, sroot, droot) == p

\* lines 196-198: the converted PDF when it is on disk, else the input
TextSource(fs, ds, p, sroot, droot) ==
  LET spdf == IF EndsWithConverted(Stem(p)) THEN p
              ELSE make_converted_path(p, sroot, droot)
  IN  IF ~Exists(fs, ds, spdf) THEN p ELSE spdf

TargetNeverExists(fs, ds, txt_path) == FALSE

TargetExistsAsDir(fs, ds, txt_path) == txt_path \in ds

\* if txt_path.exists()
TargetExists(fs, ds, txt_path) == Exists(fs, ds, txt_path)

ExportFile ==
  /\ pc = "export" /\ i <= Len(src_files)
  /\ LET p        == src_files[i]
         spdf     == TextSource(files, dirs, p, src_root, dst_root)
         txt_path == make_text_path(spdf, src_root, dst_root, txt_root)
         sidecar  == SidecarOf(spdf)
         txt      == extract_text_pdf(files, spdf, sidecar)
     IN  IF TargetExists(files, dirs, txt_path)
           THEN /\ text_skip' = text_skip + 1
                /\ UNCHANGED <<files, dirs, text_ok, text_ng, ext_hist, writes>>
           ELSE /\ ext_hist' = Append(ext_hist, [pdf |-> spdf, sidecar |-> sidecar])
                /\ IF txt # <<>>
                     THEN /\ files' = write_text_file_fs(files, txt_path, txt)
                          /\ dirs' = write_text_file_dirs(dirs, txt_path)
                          /\ writes' = Append(writes, txt_path)
                          /\ text_ok' = text_ok + 1
                          /\ UNCHANGED text_ng
                     ELSE /\ text_ng' = text_ng + 1
                          /\ UNCHANGED <<files, dirs, writes, text_ok>>
                /\ UNCHANGED text_skip
  /\ i' = i + 1
  /\ UNCHANGED <<uiVars, pc, src_files, rows, ok, ng, skip, logs, msg,
                 ocr_hist, prev, runs, clsVars, ocrVars, unitVars>>

\* line 210: st.success(counters); the export loop keeps no log and nothing
\* else is displayed
ExportReport ==
  [success |-> [ok |-> text_ok, skip |-> text_skip, ng |-> text_ng], code |-> <<>>]

\* st.success("テキスト保存: ...") and the script ends
ExportDone ==
  /\ pc = "export" /\ i > Len(src_files)
  /\ msg' = "text_done"
  /\ pc' = "idle" /\ NoRun
  /\ UNCHANGED <<fsVars, src_root, dst_root, txt_root, prev, runs, clsVars, ocrVars, unitVars>>

----------------------------------------------------------------------------
(* pages/30_PDFテキストビューア.py : text lookup for the PDF on display       *)
(* (lines 98-110)                                                          *)

\* candidates = [txt_path_suggested, text_root / f"{stem}.txt", ...]
ViewerCandidates(current_abs, proot, croot, troot) ==
  << make_text_path(current_abs, proot, croot, troot),
     Append(troot, Stem(current_abs) \o <<".txt">>),
     Append(troot, Stem(current_abs) \o <<"_converted", ".txt">>),
     Append(troot, Stem(current_abs) \o <<"_converted", ".sidecar", ".txt">>) >>

NoPath == <<>>      \* chosen = None

\* chosen = next((p for p in candidates if p.exists()), None)
ViewerChosen(fs, ds, candidates) ==
  IF \A k \in 1..Len(candidates) : ~Exists(fs, ds, candidates[k]) THEN NoPath
  ELSE candidates[CHOOSE k \in 1..Len(candidates) :
                    /\ Exists(fs, ds, candidates[k])
                    /\ \A h \in 1..(k - 1) : ~Exists(fs, ds, candidates[h])]

----------------------------------------------------------------------------
(* The page: lib/app_paths.py default roots and a small source tree *)

default_pdf  == << <<"pdf">> >>               \* data/pdf
default_conv == << <<"converted_pdf">> >>     \* data/converted_pdf
default_text == << <<"text">> >>              \* data/text

\* PDFs the user may have put below the source root
SrcCandidates ==
  { default_pdf \o << <<"2024">>, <<"a", ".pdf">> >>,
    default_pdf \o << <<"2024">>, <<"a", "_converted", ".pdf">> >>,
    default_pdf \o << <<"b", ".pdf">> >> }

\* their contents: unreadable, scan with a little text, text PDF whose first
\* page cannot be extracted
SrcDocs ==
  { Unreadable,
    [kind |-> "pdf", open |-> TRUE, pages |-> <<0, MinTextLen - 1>>],
    [kind |-> "pdf", open |-> TRUE, pages |-> <<PageErr, MinTextLen>>] }

NoInfo   == [pages |-> 0, kind |-> "none", text_ratio |-> [num |-> 0, den |-> 1], checked |-> 0]
NoOcrEnv == [py |-> "ok", exe |-> FALSE, rc |-> 0, text_len |-> MinTextLen,
             stderr |-> "", stdout |-> "",
             opts |-> [lang |-> "jpn+eng", optimize |-> 1, jobs |-> 2,
                       rotate_pages |-> TRUE, sidecar |-> FALSE]]
NoOcrRes == [raised |-> FALSE, err |-> "none", tiers |-> <<>>, started |-> FALSE]

ClsIdle ==
  /\ c_doc = Unreadable /\ c_mtime = 0 /\ c_sample = DefaultSamplePages
  /\ c_thr = DefaultThreshold /\ c_res = NoInfo
OcrIdle ==
  /\ o_env = NoOcrEnv /\ o_pc = "call" /\ o_trace = <<>> /\ o_res = NoOcrRes
PageIdle ==
  /\ files = << >> /\ dirs = {default_pdf, default_conv, default_text}
  /\ src_root = default_pdf /\ dst_root = default_conv /\ txt_root = default_text
  /\ name_filter = NoFilter /\ year_filter = NoFilter
  /\ overwrite_pdf = FALSE /\ save_sidecar = FALSE /\ do_text_export = FALSE
  /\ do_convert = FALSE /\ do_text = FALSE
  /\ pc = "idle" /\ src_files = <<>> /\ rows = <<>> /\ i = 1
  /\ ok = 0 /\ ng = 0 /\ skip = 0 /\ logs = <<>>
  /\ text_ok = 0 /\ text_skip = 0 /\ text_ng = 0 /\ msg = "none"
  /\ ocr_hist = <<>> /\ ext_hist = <<>> /\ writes = <<>> /\ prev = << >> /\ runs = 0

NoRoots == [pdf_root |-> <<>>, converted_root |-> <<>>,
            text_root |-> <<>>, library_root |-> <<>>]

PthIdle ==
  /\ p_src = <<>> /\ p_sroot = default_pdf /\ p_droot = default_conv
  /\ p_troot = default_text /\ p_out = <<>>
EnuIdle ==
  /\ e_fs = << >> /\ e_ds = {} /\ e_root = default_pdf /\ e_calls = <<>>
NoText == [called |-> FALSE, read |-> FALSE, text |-> <<>>]

TxtIdle ==
  /\ x_fs = << >> /\ x_pdf = <<>> /\ x_sidecar = <<>> /\ x_res = NoText
CfgIdle ==
  /\ a_settings = << >> /\ a_fail = {} /\ a_roots = NoRoots /\ a_dirs = {}
CchIdle ==
  /\ k_file = [doc |-> Unreadable, mtime |-> 0] /\ k_versions = {}
  /\ k_cache = << >> /\ k_used = NoInfo
UnitIdle == PthIdle /\ EnuIdle /\ TxtIdle /\ CfgIdle /\ CchIdle

Init ==
  /\ \E S \in SUBSET SrcCandidates :
       /\ Cardinality(S) <= MaxFiles
       /\ files \in [S -> SrcDocs]
       /\ dirs = {default_pdf, default_conv, default_text}
                   \cup UNION {Ancestors(Parent(p)) : p \in S}
  /\ src_root = default_pdf /\ dst_root = default_conv /\ txt_root = default_text
  /\ name_filter = NoFilter /\ year_filter = NoFilter
  /\ overwrite_pdf = FALSE /\ save_sidecar = FALSE /\ do_text_export = FALSE
  /\ do_convert = FALSE /\ do_text = FALSE
  /\ pc = "idle" /\ src_files = <<>> /\ rows = <<>> /\ i = 1
  /\ ok = 0 /\ ng = 0 /\ skip = 0 /\ logs = <<>>
  /\ text_ok = 0 /\ text_skip = 0 /\ text_ng = 0 /\ msg = "none"
  /\ ocr_hist = <<>> /\ ext_hist = <<>> /\ writes = <<>> /\ prev = << >> /\ runs = 0
  /\ ClsIdle /\ OcrIdle /\ UnitIdle

Next == Rerun \/ Buttons \/ ExecTask \/ ExecDone \/ ExportFile \/ ExportDone

Spec == Init /\ [][Next]_vars

----------------------------------------------------------------------------
(* The page on a disk that earlier sessions have written to: converted     *)
(* PDFs, sidecars and text files may exist before the first rerun          *)

src_a      == default_pdf \o << <<"2024">>, <<"a", ".pdf">> >>
src_a_conv == default_pdf \o << <<"2024">>, <<"a", "_converted", ".pdf">> >>
dst_a      == default_conv \o << <<"2024">>, <<"a", "_converted", ".pdf">> >>
txt_a      == default_text \o << <<"2024">>, <<"a", "_converted", ".txt">> >>
\* a scan kept in a folder that is itself named a_converted.pdf
src_in_dir == src_a_conv \o << <<"b", ".pdf">> >>

ScanDoc == [kind |-> "pdf", open |-> TRUE, pages |-> <<0, MinTextLen - 1>>]
TextDoc == [kind |-> "pdf", open |-> TRUE, pages |-> <<PageErr, MinTextLen>>]

\* what an earlier session may have left for pdf/2024/a.pdf: nothing, a
\* converted PDF with a text layer, a converted PDF that cannot be read, the
\* same with the sidecar written by OCR beside it
EarlierOutputs ==
  { << >>,
    [q \in {dst_a} |-> TextDoc],
    [q \in {dst_a} |-> Unreadable],
    [q \in {dst_a, SidecarOf(dst_a)} |->
       IF q = dst_a THEN Unreadable ELSE TextFile(<<0, 5>>)] }

Merge(f, g) == [q \in DOMAIN f \cup DOMAIN g |-> IF q \in DOMAIN g THEN g[q] ELSE f[q]]

\* a source folder typed into the widget that is not on the disk
absent_root == << <<"b">> >>

InitDisk ==
  /\ \E da \in {Unreadable, ScanDoc},
        sc \in {<< >>, [q \in {src_a_conv} |-> TextDoc], [q \in {src_in_dir} |-> ScanDoc]},
        eo \in EarlierOutputs,
        tx \in {<< >>, [q \in {txt_a} |-> TextFile(<<5>>)]} :
       /\ files = Merge(Merge(Merge([q \in {src_a} |-> da], sc), eo), tx)
       /\ dirs = {default_pdf, default_conv, default_text}
                   \cup UNION {Ancestors(Parent(q)) :
                                 q \in {src_a} \cup DOMAIN sc \cup DOMAIN eo \cup DOMAIN tx}
  /\ src_root \in {default_pdf, absent_root}
  /\ dst_root = default_conv /\ txt_root = default_text
  /\ name_filter = NoFilter /\ year_filter = NoFilter
  /\ overwrite_pdf = FALSE /\ save_sidecar = FALSE /\ do_text_export = FALSE
  /\ do_convert = FALSE /\ do_text = FALSE
  /\ pc = "idle" /\ src_files = <<>> /\ rows = <<>> /\ i = 1
  /\ ok = 0 /\ ng = 0 /\ skip = 0 /\ logs = <<>>
  /\ text_ok = 0 /\ text_skip = 0 /\ text_ng = 0 /\ msg = "none"
  /\ ocr_hist = <<>> /\ ext_hist = <<>> /\ writes = <<>> /\ prev = << >> /\ runs = 0
  /\ ClsIdle /\ OcrIdle /\ UnitIdle

SpecDisk == InitDisk /\ [][Next]_vars

----------------------------------------------------------------------------
(* The page with the converted root typed as the source root itself or as  *)
(* a folder inside it: converted PDFs are listed among the inputs          *)

src_b == default_pdf \o << <<"b", ".pdf">> >>

NestedRoots == {default_pdf, default_pdf \o << <<"converted_pdf">> >>}

InitNested ==
  /\ dst_root \in NestedRoots
  /\ \E S \in SUBSET {src_a, src_b},
        eo \in {<< >>,
                [q \in {make_converted_path(src_a, default_pdf, dst_root)} |-> Unreadable]} :
       /\ S # {} /\ Cardinality(S) <= MaxFiles
       /\ \E f \in [S -> {Unreadable, ScanDoc}] : files = Merge(f, eo)
       /\ dirs = {default_pdf, dst_root, default_text}
                   \cup UNION {Ancestors(Parent(q)) : q \in S \cup DOMAIN eo}
  /\ src_root = default_pdf /\ txt_root = default_text
  /\ name_filter = NoFilter /\ year_filter = NoFilter
  /\ overwrite_pdf = FALSE /\ save_sidecar = FALSE /\ do_text_export = FALSE
  /\ do_convert = FALSE /\ do_text = FALSE
  /\ pc = "idle" /\ src_files = <<>> /\ rows = <<>> /\ i = 1
  /\ ok = 0 /\ ng = 0 /\ skip = 0 /\ logs = <<>>
  /\ text_ok = 0 /\ text_skip = 0 /\ text_ng = 0 /\ msg = "none"
  /\ ocr_hist = <<>> /\ ext_hist = <<>> /\ writes = <<>> /\ prev = << >> /\ runs = 0
  /\ ClsIdle /\ OcrIdle /\ UnitIdle

SpecNested == InitNested /\ [][Next]_vars

----------------------------------------------------------------------------
(* The classifier alone: quick_pdf_info on every small document *)

PageVals == {PageErr, MinTextLen - 1, MinTextLen}

\* modification times a file may carry
Mtimes == 1..MaxMtime

ClassifyDocs ==
  {Unreadable} \cup
  {[kind |-> "pdf", open |-> TRUE, pages |-> ps] :
     ps \in UNION {[1..n -> PageVals] : n \in 0..MaxPages}}

Thresholds ==
  { [num |-> 0, den |-> 1], [num |-> 1, den |-> 10], [num |-> 3, den |-> 10],
    [num |-> 1, den |-> 3], [num |-> 1, den |-> 2], [num |-> 2, den |-> 3],
    [num |-> 1, den |-> 1], [num |-> 3, den |-> 2] }

InitClassify ==
  /\ c_doc \in ClassifyDocs
  /\ c_mtime \in Mtimes
  /\ c_sample \in 0..MaxSample
  /\ c_thr \in Thresholds
  /\ c_res = NoInfo
  /\ PageIdle /\ OcrIdle /\ UnitIdle

Classify ==
  /\ c_res = NoInfo
  /\ c_res' = quick_pdf_info(c_doc, c_mtime, c_sample, c_thr)
  /\ UNCHANGED <<c_doc, c_mtime, c_sample, c_thr, pageVars, ocrVars, unitVars>>

NextClassify == Classify

SpecClassify == InitClassify /\ [][NextClassify]_vars

----------------------------------------------------------------------------
(* The OCR engine alone: run_ocr on every host and option set *)

InitOcr ==
  /\ \E e \in OcrHosts, o \in OcrOpts :
       o_env = [py |-> e.py, exe |-> e.exe, rc |-> e.rc, text_len |-> e.text_len,
                stderr |-> e.stderr, stdout |-> e.stdout, opts |-> o]
  /\ o_pc = "call" /\ o_trace = <<>> /\ o_res = NoOcrRes
  /\ PageIdle /\ ClsIdle /\ UnitIdle

CallRunOcr ==
  /\ o_pc = "call"
  /\ o_res' = run_ocr(o_env)
  /\ o_trace' = run_ocr(o_env).tiers
  /\ o_pc' = IF run_ocr(o_env).raised THEN "raised" ELSE "returned"
  /\ UNCHANGED <<o_env, pageVars, clsVars, unitVars>>

NextOcr == CallRunOcr

SpecOcr == InitOcr /\ [][NextOcr]_vars

----------------------------------------------------------------------------
(* The path derivations alone: make_converted_path and make_text_path on    *)
(* sources inside and outside the roots                                    *)

MaxCalls == 2      \* most calls of one function on the same arguments

PathSources ==
  { << <<"pdf">>, <<"a", ".pdf">> >>,
    << <<"pdf">>, <<"2024">>, <<"a">>, <<"b", ".pdf">> >>,
    << <<"pdf">>, <<"2024">>, <<"a", "_converted", ".pdf">> >>,
    << <<"pdf">>, <<"a", ".sidecar", ".pdf">> >>,
    << <<"converted_pdf">>, <<"2024">>, <<"a">>, <<"b", "_converted", ".pdf">> >>,
    << <<"converted_pdf">>, <<"b", ".pdf">> >>,
    << <<"text">>, <<"2024">>, <<"a", ".pdf">> >>,
    << <<"b", ".pdf">> >> }

SourceRoots == { << <<"pdf">> >>, << <<"pdf">>, <<"2024">> >> }
DestRoots   == { << <<"converted_pdf">> >>, << <<"pdf">> >> }
TextRoots   == { << <<"text">> >>, << <<"pdf">>, <<"text">> >> }

InitPaths ==
  /\ p_src \in PathSources
  /\ p_sroot \in SourceRoots /\ p_droot \in DestRoots /\ p_troot \in TextRoots
  /\ p_out = <<>>
  /\ PageIdle /\ ClsIdle /\ OcrIdle /\ EnuIdle /\ TxtIdle /\ CfgIdle /\ CchIdle

\* one more call of each derivation on the same arguments, and the text path
\* of the derived converted path
Derive ==
  /\ Len(p_out) < MaxCalls
  /\ LET conv == make_converted_path(p_src, p_sroot, p_droot)
     IN  p_out' = Append(p_out,
                    [conv |-> conv,
                     text |-> make_text_path(p_src, p_sroot, p_droot, p_troot),
                     conv_text |-> make_text_path(conv, p_sroot, p_droot, p_troot)])
  /\ UNCHANGED <<p_src, p_sroot, p_droot, p_troot,
                 pageVars, clsVars, ocrVars, enuVars, txtVars, cfgVars, cchVars>>

SpecPaths == InitPaths /\ [][Derive]_vars

----------------------------------------------------------------------------
(* lib/app_paths.py : _resolve and AppPaths.__init__                        *)
(* Paths here are absolute and given normalised (no "..", no symbolic      *)
(* link), so Path.resolve() leaves them as they are.  A setting is         *)
(*   [form |-> "none"]            the key is absent                        *)
(*   [form |-> "empty"]           ""                                       *)
(*   [form |-> "project", sub]    "project:<sub>"                          *)
(*   [form |-> "mount", alias, slash, sub]   "mount:<alias>[/<sub>]"       *)
(*   [form |-> "path", abs, sub]  any other string                         *)

APP_ROOT == << <<"app">> >>
data_dir == APP_ROOT \o << <<"data">> >>
default_library == << <<"library">> >>

RootKeys == {"pdf_root", "converted_root", "text_root", "library_root"}

\* lines 105-108
DefaultRoot(key) ==
  data_dir \o (CASE key = "pdf_root"       -> default_pdf
                 [] key = "converted_root" -> default_conv
                 [] key = "text_root"      -> default_text
                 [] key = "library_root"   -> default_library)

Setting(form, alias, slash, abs, sub) ==
  [form |-> form, alias |-> alias, slash |-> slash, abs |-> abs, sub |-> sub]

NoValue == Setting("none", "", FALSE, FALSE, <<>>)

_resolve_ignore_mounts(spec, mounts, default) ==
  IF spec.form \in {"none", "empty"} THEN default
  ELSE IF spec.form = "project" THEN APP_ROOT \o spec.sub
  ELSE IF spec.form = "mount" THEN default
  ELSE IF spec.abs THEN spec.sub ELSE APP_ROOT \o spec.sub

_resolve(spec, mounts, default) ==
  IF spec.form \in {"none", "empty"} THEN default
  ELSE IF spec.form = "project" THEN APP_ROOT \o spec.sub
  ELSE IF spec.form = "mount"
    THEN (IF spec.slash /\ spec.alias \in DOMAIN mounts
            THEN mounts[spec.alias] \o spec.sub
            ELSE default)
  ELSE IF spec.abs THEN spec.sub ELSE APP_ROOT \o spec.sub

\* locs_sec.get(self.env, {}) : the settings of the current location
CurrentLocation(settings) ==
  IF settings.location_defined THEN settings.location
  ELSE [k \in RootKeys |-> NoValue]

\* lines 114-117
ResolvedRoots(settings) ==
  [k \in RootKeys |->
     _resolve(CurrentLocation(settings)[k], settings.mounts, DefaultRoot(k))]

\* lines 120-125: mkdir(parents=True, exist_ok=True) of every root; a raised
\* error is swallowed
CreatedDirs(roots, fail) == UNION {Ancestors(roots[k]) : k \in RootKeys \ fail}

ext_dir == << <<"mnt">>, <<"ext">> >>

SettingValues ==
  { NoValue,
    Setting("empty", "", FALSE, FALSE, <<>>),
    Setting("project", "", FALSE, FALSE, << <<"var">>, <<"pdf">> >>),
    Setting("mount", "ext", TRUE, FALSE, << <<"pdf">> >>),
    Setting("mount", "ext", FALSE, FALSE, <<>>),
    Setting("mount", "nas", TRUE, FALSE, << <<"pdf">> >>),
    Setting("path", "", FALSE, TRUE, << <<"srv">>, <<"pdf">> >>),
    Setting("path", "", FALSE, FALSE, << <<"pdf">> >>) }

InitRoots ==
  /\ \E ld \in BOOLEAN, loc \in [RootKeys -> SettingValues],
        mt \in {<< >>, [n \in {"ext"} |-> ext_dir]} :
       /\ loc["text_root"] \in {NoValue, Setting("mount", "ext", TRUE, FALSE, << <<"pdf">> >>)}
       /\ loc["library_root"] \in {NoValue, Setting("empty", "", FALSE, FALSE, <<>>)}
       /\ a_settings = [location_defined |-> ld, location |-> loc, mounts |-> mt]
  /\ a_fail \in SUBSET RootKeys
  /\ a_roots = NoRoots /\ a_dirs = {}
  /\ PageIdle /\ ClsIdle /\ OcrIdle /\ PthIdle /\ EnuIdle /\ TxtIdle /\ CchIdle

\* AppPaths(settings_path)
AppPathsInit ==
  /\ a_roots = NoRoots
  /\ a_roots' = ResolvedRoots(a_settings)
  /\ a_dirs' = CreatedDirs(ResolvedRoots(a_settings), a_fail)
  /\ UNCHANGED <<a_settings, a_fail,
                 pageVars, clsVars, ocrVars, pthVars, enuVars, txtVars, cchVars>>

SpecRoots == InitRoots /\ [][AppPathsInit]_vars

----------------------------------------------------------------------------
(* The enumeration alone: iter_pdfs on small trees *)

\* files that may be on disk: PDFs at several depths below data/pdf (one beside
\* a directory whose name is a prefix of its name), a text file, a PDF outside
TreeFiles ==
  { << <<"pdf">>, <<"a", ".pdf">> >>,
    << <<"pdf">>, <<"a">>, <<"b", ".pdf">> >>,
    << <<"pdf">>, <<"2024">>, <<"a", ".pdf">> >>,
    << <<"pdf">>, <<"b", ".pdf">> >>,
    << <<"pdf">>, <<"a", ".txt">> >>,
    << <<"converted_pdf">>, <<"a", ".pdf">> >> }

\* directories that may be on disk besides the parents of the files: the root
\* itself, and a directory whose name ends in .pdf
TreeDirs ==
  { << <<"pdf">> >>, << <<"pdf">>, <<"2024">>, <<"b", ".pdf">> >> }

InitEnum ==
  /\ \E S \in SUBSET TreeFiles, D \in SUBSET TreeDirs :
       /\ e_fs = [q \in S |-> ScanDoc]
       /\ e_ds = UNION {Ancestors(Parent(q)) : q \in S}
                   \cup UNION {Ancestors(d) : d \in D}
  /\ e_root \in { << <<"pdf">> >>, << <<"pdf">>, <<"2024">> >>, << <<"text">> >> }
  /\ e_calls = <<>>
  /\ PageIdle /\ ClsIdle /\ OcrIdle /\ PthIdle /\ TxtIdle /\ CfgIdle /\ CchIdle

\* one more call of iter_pdfs(root) on the unchanged tree
ListPdfs ==
  /\ Len(e_calls) < MaxCalls
  /\ e_calls' = Append(e_calls, iter_pdfs(e_fs, e_ds, e_root))
  /\ UNCHANGED <<e_fs, e_ds, e_root,
                 pageVars, clsVars, ocrVars, pthVars, txtVars, cfgVars, cchVars>>

SpecEnum == InitEnum /\ [][ListPdfs]_vars

----------------------------------------------------------------------------
(* The extractor alone: extract_text_pdf on one PDF and one sidecar *)

\* the PDF: missing, unreadable, without text, with a failing page and no
\* text, with text between blank pages, with text
PdfStates ==
  { << >>,
    [q \in {dst_a} |-> Unreadable],
    [q \in {dst_a} |-> [kind |-> "pdf", open |-> TRUE, pages |-> <<0>>]],
    [q \in {dst_a} |-> [kind |-> "pdf", open |-> TRUE, pages |-> <<PageErr, 0>>]],
    [q \in {dst_a} |-> [kind |-> "pdf", open |-> TRUE, pages |-> <<0, 7, 0>>]],
    [q \in {dst_a} |-> [kind |-> "pdf", open |-> TRUE, pages |-> <<PageErr, 7>>]] }

\* the sidecar file: missing, empty, blank, text after a blank line, text,
\* text before a blank line, locked
SidecarStates ==
  { << >> }
  \cup {[q \in {SidecarOf(dst_a)} |-> TextFile(c)] :
          c \in {<<>>, <<0>>, <<0, 5>>, <<5>>, <<5, 0>>}}
  \cup {[q \in {SidecarOf(dst_a)} |-> LockedFile]}

InitText ==
  /\ \E f \in PdfStates, g \in SidecarStates : x_fs = Merge(f, g)
  /\ x_pdf = dst_a
  /\ x_sidecar \in {NoSidecar, SidecarOf(dst_a)}
  /\ x_res = NoText
  /\ PageIdle /\ ClsIdle /\ OcrIdle /\ PthIdle /\ EnuIdle /\ CfgIdle /\ CchIdle

CallExtract ==
  /\ ~x_res.called
  /\ x_res' = [called |-> TRUE,
               read   |-> SidecarRead(x_fs, x_pdf, x_sidecar),
               text   |-> extract_text_pdf(x_fs, x_pdf, x_sidecar)]
  /\ UNCHANGED <<x_fs, x_pdf, x_sidecar,
                 pageVars, clsVars, ocrVars, pthVars, enuVars, cfgVars, cchVars>>

SpecText == InitText /\ [][CallExtract]_vars

----------------------------------------------------------------------------
(* The cached classifier: st.cache_data around quick_pdf_info, called by   *)
(* the planner for one path whose file the user replaces between reruns    *)

CacheKeyNoMtime(pdf_path, mtime_ns) == [pdf_path |-> pdf_path, mtime_ns |-> 0]

\* st.cache_data keys an entry by the arguments of the call; the planner
\* passes str(p) and the time stamp and leaves the two defaults
CacheKey(pdf_path, mtime_ns) == [pdf_path |-> pdf_path, mtime_ns |-> mtime_ns]

\* one call through the decorator: the stored result on a hit; on a miss the
\* function runs on the file as it is now and its result is stored
cached_quick_pdf_info(cache, doc, pdf_path, mtime_ns) ==
  LET key == CacheKey(pdf_path, mtime_ns)
  IN  IF key \in DOMAIN cache
        THEN [value |-> cache[key], cache |-> cache]
        ELSE LET v == quick_pdf_info(doc, mtime_ns, DefaultSamplePages, DefaultThreshold)
             IN  [value |-> v, cache |-> Put(cache, key, v)]

InitCache ==
  /\ k_file \in [doc : SrcDocs, mtime : Mtimes]
  /\ k_versions = {k_file}
  /\ k_cache = << >> /\ k_used = NoInfo
  /\ PageIdle /\ ClsIdle /\ OcrIdle /\ PthIdle /\ EnuIdle /\ TxtIdle /\ CfgIdle

\* between two reruns the user replaces the file: other content, other time
\* stamp (any other one: a copy may carry the time of its original)
Modify ==
  /\ \E d \in SrcDocs \ {k_file.doc}, m \in Mtimes \ {k_file.mtime} :
       k_file' = [doc |-> d, mtime |-> m]
  /\ k_versions' = k_versions \cup {k_file'}
  /\ k_used' = NoInfo
  /\ UNCHANGED <<k_cache, pageVars, clsVars, ocrVars, pthVars, enuVars, txtVars, cfgVars>>

\* line 138 of the page in one rerun: info = quick_pdf_info(str(p), p.stat().st_mtime_ns)
PlanCall ==
  /\ LET r == cached_quick_pdf_info(k_cache, k_file.doc, src_a, st_mtime_ns(k_file))
     IN  k_used' = r.value /\ k_cache' = r.cache
  /\ UNCHANGED <<k_file, k_versions,
                 pageVars, clsVars, ocrVars, pthVars, enuVars, txtVars, cfgVars>>

SpecCache == InitCache /\ [][Modify \/ PlanCall]_vars

----------------------------------------------------------------------------
(* Helpers of the properties *)

Range(q) == {q[k] : k \in 1..Len(q)}
NumRaised(h) == Cardinality({k \in 1..Len(h) : h[k].raised})
NumReturned(h) == Cardinality({k \in 1..Len(h) : ~h[k].raised})

Ascending(q) == \A j, k \in 1..Len(q) : j < k => PathLT(q[j], q[k])

RECURSIVE IsSubSeq(_, _)
IsSubSeq(a, b) ==
  IF a = <<>> THEN TRUE
  ELSE IF b = <<>> THEN FALSE
  ELSE IF Head(a) = Head(b) THEN IsSubSeq(Tail(a), Tail(b))
  ELSE IsSubSeq(a, Tail(b))

SrcsOf(rs) == [k \in 1..Len(rs) |-> rs[k].src]

CeilDiv(a, b) == (a + b - 1) \div b

\* textful pages among the first s pages of a document, counted page by page
TextfulAmong(doc, s) ==
  Cardinality({j \in 1..Min(s, Len(doc.pages)) : doc.pages[j] >= MinTextLen})

Planned(p) == \E k \in 1..Len(rows) : rows[k].src = p

----------------------------------------------------------------------------
(* Properties of the OCR loop and of the text export (Spec) *)

\* C1: partial-failure isolation. Whatever tasks fail in run_ocr, the loop goes
\* on to the next task and never leaves the script: failureCount is the number
\* of run_ocr calls that raised, successCount the number that returned, every
\* task before the loop position is accounted for, the export that follows a
\* loop starts only after every task was processed, and the destination of
\* every successful task is on disk.
C1_PartialFailureIsolation ==
  /\ ng = NumRaised(ocr_hist)
  /\ ok = NumReturned(ocr_hist)
  /\ ocr_hist # <<>> => pc \in {"exec", "export"}
  /\ pc = "exec" => i <= Len(rows) + 1 /\ ok + ng + skip = i - 1
  /\ (pc = "export" /\ do_convert) => ok + ng + skip = Len(rows)
  /\ \A k \in 1..Len(ocr_hist) : ~ocr_hist[k].raised => ocr_hist[k].dst \in DOMAIN files

\* a finished loop of two tasks whose first task failed and whose second succeeded
C1_Witness ==
  /\ pc = "exec" /\ i > Len(rows) /\ Len(rows) = 2
  /\ Len(ocr_hist) = 2 /\ ocr_hist[1].raised /\ ~ocr_hist[2].raised
  /\ ok = 1 /\ ng = 1 /\ skip = 0
  /\ rows[2].dst \in DOMAIN files

\* C2 as stated: in a run planned with overwrite=false after an OCR loop was
\* executed on the same inputs, every task of that loop is planned
\* OUTPUT_EXISTS_SKIP.
C2_AllSkipOnRerun ==
  (pc \in {"planned", "exec"} /\ ~overwrite_pdf) =>
    \A k \in 1..Len(rows) :
      rows[k].src \in DOMAIN prev => rows[k].status = "OUTPUT_EXISTS_SKIP"

\* C2 amended: with overwrite=false OCR is never invoked for a destination that
\* is already on disk, and every task that the earlier loop converted or
\* skipped is planned OUTPUT_EXISTS_SKIP (a task whose OCR failed may be
\* planned UNCONVERTED again).
C2_SkipSafety ==
  (pc \in {"planned", "exec"} /\ ~overwrite_pdf) =>
    /\ \A k \in 1..Len(ocr_hist) : ~ocr_hist[k].existed
    /\ \A k \in 1..Len(rows) :
         (rows[k].src \in DOMAIN prev /\ prev[rows[k].src] \in {"ok", "skip"})
           => rows[k].status = "OUTPUT_EXISTS_SKIP"

\* a second run with overwrite=false that skipped a task converted by the first
C2_Witness ==
  /\ pc = "exec" /\ ~overwrite_pdf /\ runs = 2 /\ i > Len(rows)
  /\ \E k \in 1..Len(rows) :
       /\ rows[k].src \in DOMAIN prev /\ prev[rows[k].src] = "ok"
       /\ rows[k].status = "OUTPUT_EXISTS_SKIP"
  /\ skip >= 1 /\ ocr_hist = <<>>

\* the files written by a step (the write log restarts with every run)
NewWrites ==
  IF Len(writes') >= Len(writes)
    THEN {writes'[k] : k \in (Len(writes) + 1)..Len(writes')}
    ELSE Range(writes')

\* C3: text export is non-destructive. No step of any run rewrites, changes or
\* removes a file that exists below the text root, and an export step whose
\* target exists counts a skip without calling the extractor.
C3_TextExportNonDestructive ==
  [][ /\ \A t \in DOMAIN files :
           IsUnder(t, txt_root) =>
             t \in DOMAIN files' /\ files'[t] = files[t] /\ t \notin NewWrites
      /\ (/\ pc = "export" /\ i <= Len(src_files)
          /\ make_text_path(TextSource(files, dirs, src_files[i], src_root, dst_root),
                            src_root, dst_root, txt_root) \in DOMAIN files)
           => /\ text_skip' = text_skip + 1
              /\ ext_hist' = ext_hist
              /\ files' = files
              /\ text_ok' = text_ok /\ text_ng' = text_ng
    ]_vars

\* an export that met an existing text file after a conversion had been run
C3_Witness ==
  /\ pc = "export" /\ text_skip >= 1 /\ runs = 2
  /\ \E t \in DOMAIN files : IsUnder(t, txt_root)
  /\ \E d \in DOMAIN files : IsUnder(d, dst_root)

\* C5: plan membership and status. A listed file is planned iff its stem does
\* not end in _converted and it is classified IMAGE_PDF; a planned task is
\* OUTPUT_EXISTS_SKIP / OUTPUT_EXISTS_OVERWRITE when its destination exists and
\* overwrite is off / on, and UNCONVERTED when the destination does not exist.
C5_PlanMembershipAndStatus ==
  pc = "planned" =>
    /\ \A p \in Range(src_files) :
         Planned(p) <=>
           /\ ~EndsWithConverted(Stem(p))
           /\ quick_pdf_info(files[p], st_mtime_ns(files[p]),
                             DefaultSamplePages, DefaultThreshold).kind
                = "IMAGE_PDF"
    /\ \A k \in 1..Len(rows) :
         /\ rows[k].src \in Range(src_files)
         /\ rows[k].status =
              IF rows[k].dst \in DOMAIN files
                THEN (IF overwrite_pdf THEN "OUTPUT_EXISTS_OVERWRITE"
                      ELSE "OUTPUT_EXISTS_SKIP")
                ELSE "UNCONVERTED"

\* a plan with a task to overwrite, a new task, and a listed file left out
C5_Witness ==
  /\ pc = "planned" /\ Len(rows) < Len(src_files)
  /\ \E k \in 1..Len(rows) : rows[k].status = "OUTPUT_EXISTS_OVERWRITE"

\* C6: a task planned OUTPUT_EXISTS_SKIP is handled by one more skip and one
\* more log line; run_ocr is not called and no file or directory changes.
C6_SkipTouchesNothing ==
  [][ (pc = "exec" /\ i <= Len(rows) /\ rows[i].status = "OUTPUT_EXISTS_SKIP")
        => /\ skip' = skip + 1
           /\ logs' = Append(logs, LogLine("skip", rows[i].src_rel, "none"))
           /\ ocr_hist' = ocr_hist
           /\ files' = files /\ dirs' = dirs /\ writes' = writes
           /\ ok' = ok /\ ng' = ng
    ]_vars

\* a skip step has been taken
C6_Witness ==
  /\ pc = "exec" /\ skip >= 1
  /\ logs[Len(logs)].mark = "skip"
  /\ rows[Len(logs)].status = "OUTPUT_EXISTS_SKIP"

\* C7: execution order. The listed files are in ascending path order also
\* after the filters, the plan is a subsequence of the list, and the log has
\* one line per task already processed, in plan order.
C7_ExecutionOrder ==
  /\ Ascending(src_files)
  /\ IsSubSeq(SrcsOf(rows), src_files)
  /\ pc = "exec" => Len(logs) = i - 1
  /\ Len(logs) <= Len(rows)
  /\ \A k \in 1..Len(logs) : logs[k].rel = rows[k].src_rel

\* two tasks were processed, out of a list from which a file was dropped
C7_Witness ==
  /\ pc = "exec" /\ i > Len(rows) /\ Len(logs) = 2
  /\ logs[1].rel # logs[2].rel

\* C10: classification is safe by default. A listed PDF that cannot be opened
\* is classified IMAGE_PDF with ratio 0 and 0 pages and is planned for OCR; a
\* page whose extraction fails counts as non-textful while the textful pages
\* after it still count.
C10_SafeByDefault ==
  /\ quick_pdf_info(Unreadable, st_mtime_ns(Unreadable),
                    DefaultSamplePages, DefaultThreshold)
       = [pages |-> 0, kind |-> "IMAGE_PDF",
          text_ratio |-> [num |-> 0, den |-> 1], checked |-> 0]
  /\ pc = "planned" =>
       \A p \in Range(src_files) :
         ~EndsWithConverted(Stem(p)) =>
           IF ~files[p].open
             THEN \E k \in 1..Len(rows) : rows[k].src = p /\ rows[k].pages = 0
             ELSE LET s == Max(Min(DefaultSamplePages, Max(Len(files[p].pages), 1)), 1)
                  IN  Planned(p) <=>
                        TextfulAmong(files[p], s) * DefaultThreshold.den
                          < DefaultThreshold.num * s

\* an unreadable PDF is planned, and a PDF whose first page fails but whose
\* second page is textful is left out as a text PDF
C10_Witness ==
  /\ pc = "planned"
  /\ \E k \in 1..Len(rows) : ~files[rows[k].src].open
  /\ \E p \in Range(src_files) :
       /\ ~EndsWithConverted(Stem(p)) /\ files[p].open /\ ~Planned(p)
       /\ files[p].pages[1] = PageErr

----------------------------------------------------------------------------
(* Properties of the text export on a disk written by earlier sessions     *)
(* (SpecDisk)                                                              *)

\* the text source the export is to choose for the input p, from the disk alone
ExpectedSource(p) ==
  IF EndsWithConverted(Stem(p)) THEN p
  ELSE IF Exists(files, dirs, make_converted_path(p, src_root, dst_root))
         THEN make_converted_path(p, src_root, dst_root)
         ELSE p

ExpectedTarget(p) == make_text_path(ExpectedSource(p), src_root, dst_root, txt_root)

ExportStep == pc = "export" /\ i <= Len(src_files)

\* C13: text-source selection. In every export step the text source is the
\* input itself when its stem ends in _converted, else the derived converted
\* path when that file is on disk, else the input; the choice is a function of
\* the disk at the time of the step, whatever ran before in the session: the
\* step skips iff the text path of that source exists, and otherwise hands that
\* source to extract_text_pdf.
C13_SourceFromDisk ==
  [][ ExportStep =>
        IF ExpectedTarget(src_files[i]) \in DOMAIN files
          THEN ext_hist' = ext_hist /\ text_skip' = text_skip + 1
          ELSE /\ Len(ext_hist') = Len(ext_hist) + 1
               /\ Last(ext_hist').pdf = ExpectedSource(src_files[i])
    ]_vars

\* in the first run of a session, without any conversion, the export read the
\* converted PDF left by an earlier session
C13_Witness ==
  /\ pc = "export" /\ runs = 1 /\ ~do_convert /\ ocr_hist = <<>>
  /\ \E k \in 1..Len(ext_hist) :
       /\ ext_hist[k].pdf = dst_a
       /\ ext_hist[k].pdf \notin Range(src_files)

\* C14: outcome of an export step whose target does not exist. The extractor is
\* called with the chosen source and that source's sidecar path; a non-empty
\* text is written to the target exactly as returned and counts a success; an
\* empty text counts a failure and leaves no file at the target; in both cases
\* the loop goes on with the next file.
C14_ExportOutcome ==
  [][ (ExportStep /\ ExpectedTarget(src_files[i]) \notin DOMAIN files) =>
        LET spdf == ExpectedSource(src_files[i])
            tgt  == ExpectedTarget(src_files[i])
            txt  == extract_text_pdf(files, spdf, SidecarOf(spdf))
        IN  /\ ext_hist' = Append(ext_hist, [pdf |-> spdf, sidecar |-> SidecarOf(spdf)])
            /\ pc' = "export" /\ i' = i + 1 /\ text_skip' = text_skip
            /\ IF txt # <<>>
                 THEN /\ tgt \in DOMAIN files' /\ files'[tgt].pages = txt
                      /\ text_ok' = text_ok + 1 /\ text_ng' = text_ng
                 ELSE /\ tgt \notin DOMAIN files' /\ files' = files
                      /\ text_ng' = text_ng + 1 /\ text_ok' = text_ok
    ]_vars

\* one export wrote the text of one input and failed on another
C14_Witness ==
  /\ pc = "export" /\ i > Len(src_files)
  /\ text_ok = 1 /\ text_ng = 1 /\ Len(ext_hist) = 2
  /\ Len(writes) >= 1 /\ Last(writes) \in DOMAIN files

OcrLoopEnd    == pc = "exec" /\ i > Len(rows)
ExportLoopEnd == pc = "export" /\ i > Len(src_files)

\* the report of the OCR batch: three counters that sum to the number of tasks
\* and one log entry per task, with an outcome marker and the path of the
\* source relative to the source root
OcrReportComplete ==
  /\ OcrReport.success.ok + OcrReport.success.ng + OcrReport.success.skip = Len(rows)
  /\ Len(OcrReport.code) = Len(rows)
  /\ \A k \in 1..Len(rows) :
       /\ OcrReport.code[k].mark \in {"ok", "ng", "skip"}
       /\ OcrReport.code[k].rel = RelativeTo(rows[k].src, src_root)

ExportCountersComplete ==
  ExportReport.success.ok + ExportReport.success.ng + ExportReport.success.skip
    = Len(src_files)

\* C17 as stated: the OCR batch and the text export each end by reporting three
\* counters that sum to the number of files processed and a log with exactly
\* one entry per processed file.
C17_EveryBatchLogs ==
  /\ OcrLoopEnd => OcrReportComplete
  /\ ExportLoopEnd =>
       /\ ExportCountersComplete
       /\ Len(ExportReport.code) = Len(src_files)

\* C17 amended: the OCR batch ends by reporting three counters that sum to the
\* number of tasks and a log with exactly one entry per task (outcome marker
\* and source path relative to the source root); the text export ends by
\* reporting three counters that sum to the number of listed files, and no log.
C17_CountersAndOcrLog ==
  /\ OcrLoopEnd => OcrReportComplete
  /\ ExportLoopEnd =>
       /\ ExportCountersComplete
       /\ ExportReport.code = <<>>

\* a conversion of one task that failed was followed by an export over two
\* listed files
C17_Witness ==
  /\ ExportLoopEnd /\ do_convert /\ Len(src_files) = 2
  /\ Len(rows) = 1 /\ OcrReport.success.ng = 1 /\ OcrReport.code[1].mark = "ng"
  /\ ExportReport.success.ok + ExportReport.success.skip >= 1

\* C18: output paths are unique within a run. Two distinct tasks of a plan never
\* have the same destination, two distinct listed files never derive the same
\* text path in the export, and no path is written twice in a run.
C18_UniqueOutputs ==
  /\ \A j, k \in 1..Len(rows) : j # k => rows[j].dst # rows[k].dst
  /\ pc = "export" =>
       \A j, k \in 1..Len(src_files) :
         j # k => ExpectedTarget(src_files[j]) # ExpectedTarget(src_files[k])
  /\ \A j, k \in 1..Len(writes) : j # k => writes[j] # writes[k]

----------------------------------------------------------------------------
(* Properties of run_ocr (SpecOcr) *)

\* C4: two-tier execution. The in-process tier is tried first, the subprocess
\* tier is tried iff the in-process tier raised, run_ocr returns as soon as
\* one tier succeeds and raises only when both tiers failed.
C4_TwoTier ==
  o_pc # "call" =>
    /\ o_trace # <<>> /\ o_trace[1] = "python"
    /\ ("cli" \in Range(o_trace)) <=> (o_env.py = "raise")
    /\ o_env.py = "ok" => (o_trace = <<"python">> /\ o_pc = "returned")
    /\ (o_pc = "raised") <=> (o_env.py = "raise" /\ (~o_env.exe \/ o_env.rc # 0))
    /\ (o_pc = "returned") <=> ~o_res.raised

\* the in-process tier raised and the subprocess tier succeeded
C4_Witness ==
  /\ o_pc = "returned" /\ o_env.py = "raise"
  /\ o_trace = <<"python", "cli">>

\* C16 as stated: a run_ocr that raises surfaces the error of the subprocess
\* tier, never the one of the in-process tier: the not-found error, with no
\* subprocess started, when the executable is missing; the captured stderr, or
\* the captured stdout when stderr is empty, when the subprocess exits non-zero.
C16_LastFailureSurfaced ==
  o_pc = "raised" =>
    /\ o_res.err # _run_python(o_env).err
    /\ ~o_env.exe => (o_res.err = NotFoundMsg /\ ~o_res.started)
    /\ o_env.exe =>
         /\ o_res.started /\ o_env.rc # 0
         /\ o_res.err = IF o_env.stderr # "" THEN o_env.stderr ELSE o_env.stdout

\* C16 amended: as above, and when the subprocess exits non-zero having printed
\* nothing on either stream, the error carries a fixed failure message.
C16_LastFailureOrFixedMessage ==
  o_pc = "raised" =>
    /\ o_res.err # _run_python(o_env).err
    /\ ~o_env.exe => (o_res.err = NotFoundMsg /\ ~o_res.started)
    /\ o_env.exe =>
         /\ o_res.started /\ o_env.rc # 0
         /\ o_res.err = IF o_env.stderr # "" THEN o_env.stderr
                         ELSE IF o_env.stdout # "" THEN o_env.stdout
                         ELSE FailedMsg

\* the subprocess failed with an empty stderr and its stdout was surfaced
C16_Witness ==
  /\ o_pc = "raised" /\ o_env.exe /\ o_env.stderr = "" /\ o_env.stdout # ""
  /\ o_res.err = o_env.stdout /\ o_trace = <<"python", "cli">>

----------------------------------------------------------------------------
(* Properties of quick_pdf_info (SpecClassify) *)

InUnit(r) == 0 <= r.num /\ r.num <= r.den /\ r.den > 0

\* C8 as stated: for every threshold and on every path, kind = TEXT_PDF iff
\* text_ratio >= threshold, and text_ratio lies in [0,1].
C8_KindIffRatio ==
  c_res # NoInfo =>
    /\ (c_res.kind = "TEXT_PDF") <=> RatGE(c_res.text_ratio, c_thr)
    /\ InUnit(c_res.text_ratio)

\* C8 amended: for every threshold > 0 and on every path, kind = TEXT_PDF iff
\* text_ratio >= threshold, and text_ratio lies in [0,1] for every threshold.
C8_KindIffRatioPositive ==
  c_res # NoInfo =>
    /\ c_thr.num > 0 =>
         ((c_res.kind = "TEXT_PDF") <=> RatGE(c_res.text_ratio, c_thr))
    /\ InUnit(c_res.text_ratio)

\* the open-failure path under a positive threshold
C8_Witness ==
  /\ c_res # NoInfo /\ ~c_doc.open /\ c_thr.num > 0
  /\ c_res.kind = "IMAGE_PDF" /\ c_res.text_ratio.num = 0

\* C9: threshold boundary. With s >= 1 sampled pages and a threshold in (0,1],
\* exactly ceil(threshold * s) textful sampled pages give TEXT_PDF and one
\* page fewer gives IMAGE_PDF.
C9_ThresholdBoundary ==
  (/\ c_res # NoInfo /\ c_doc.open /\ c_res.checked >= 1
   /\ c_thr.num > 0 /\ c_thr.num <= c_thr.den) =>
    LET s    == c_res.checked
        k    == TextfulAmong(c_doc, s)
        need == CeilDiv(c_thr.num * s, c_thr.den)
    IN  /\ k = need     => c_res.kind = "TEXT_PDF"
        /\ k = need - 1 => c_res.kind = "IMAGE_PDF"

\* six sampled pages, threshold 0.3, two textful pages: TEXT_PDF
C9_Witness ==
  /\ c_res # NoInfo /\ c_doc.open /\ c_res.checked = 6
  /\ c_thr = DefaultThreshold
  /\ TextfulAmong(c_doc, 6) = 2
  /\ c_res.kind = "TEXT_PDF"

----------------------------------------------------------------------------
(* Properties of the path derivations (SpecPaths) *)

\* the directory part of p relative to base
RelDir(p, base) == SubSeq(p, Len(base) + 1, Len(p) - 1)

IsPdfName(p) == Len(Name(p)) > 1 /\ Last(Name(p)) = ".pdf"

\* C11: make_converted_path. For a source sourceRoot/rel/name.pdf the result is
\* destRoot/rel/name_converted.pdf; for a source name.pdf outside sourceRoot it
\* is destRoot/name_converted.pdf; every call on the same arguments returns the
\* same path.
C11_ConvertedPath ==
  \A k \in 1..Len(p_out) :
    /\ IsPdfName(p_src) =>
         p_out[k].conv =
           (IF IsUnder(p_src, p_sroot)
              THEN p_droot \o RelDir(p_src, p_sroot)
              ELSE p_droot)
             \o << Front(Name(p_src)) \o <<"_converted", ".pdf">> >>
    /\ p_out[k].conv = p_out[1].conv

\* two calls were made for a source in a subdirectory of the source root
C11_Witness ==
  /\ Len(p_out) = 2
  /\ IsUnder(p_src, p_sroot) /\ Len(p_src) > Len(p_sroot) + 1
  /\ p_out[2].conv = p_droot \o RelDir(p_src, p_sroot)
                        \o << Front(Name(p_src)) \o <<"_converted", ".pdf">> >>

\* C12: make_text_path. Under the source root the result is the text root plus
\* the path relative to the source root; else, under the destination root, the
\* text root plus the path relative to the destination root; else the text root
\* plus the base name; the extension is .txt in every case.  The text path of
\* the converted path of pdfRoot/2024/a/b.pdf is textRoot/2024/a/b_converted.txt.
C12_TextPathTiers ==
  \A k \in 1..Len(p_out) :
    /\ IsPdfName(p_src) =>
         LET txt_name == << Front(Name(p_src)) \o <<".txt">> >>
         IN  p_out[k].text =
               IF IsUnder(p_src, p_sroot)
                 THEN p_troot \o RelDir(p_src, p_sroot) \o txt_name
               ELSE IF IsUnder(p_src, p_droot)
                 THEN p_troot \o RelDir(p_src, p_droot) \o txt_name
               ELSE p_troot \o txt_name
    /\ (/\ p_src = << <<"pdf">>, <<"2024">>, <<"a">>, <<"b", ".pdf">> >>
        /\ p_sroot = << <<"pdf">> >> /\ p_droot = << <<"converted_pdf">> >>)
         => /\ p_out[k].conv = p_droot \o << <<"2024">>, <<"a">>,
                                              <<"b", "_converted", ".pdf">> >>
            /\ p_out[k].conv_text = p_troot \o << <<"2024">>, <<"a">>,
                                                   <<"b", "_converted", ".txt">> >>

\* a source under both roots was resolved against the source root
C12_Witness ==
  /\ Len(p_out) >= 1
  /\ IsUnder(p_src, p_sroot) /\ IsUnder(p_src, p_droot) /\ p_sroot # p_droot
  /\ p_out[1].text = WithSuffix(p_troot \o RelativeTo(p_src, p_sroot), <<".txt">>)
  /\ p_out[1].text # WithSuffix(p_troot \o RelativeTo(p_src, p_droot), <<".txt">>)

----------------------------------------------------------------------------
(* Properties of extract_text_pdf (SpecText) *)

\* the PDF gives no text: it is missing or unreadable, or every page is blank
\* or fails
NoDirectText ==
  \/ x_pdf \notin DOMAIN x_fs
  \/ ~x_fs[x_pdf].open
  \/ \A k \in 1..Len(x_fs[x_pdf].pages) : x_fs[x_pdf].pages[k] <= 0

SidecarUsable == x_sidecar # NoSidecar /\ x_sidecar \in DOMAIN x_fs

\* C15 as stated: the sidecar is read iff the PDF gives no text and a sidecar
\* path was given and exists; the result is then the content of the sidecar
\* (the empty string when reading it fails), and the text of the PDF otherwise.
C15_SidecarContent ==
  x_res.called =>
    /\ x_res.read <=> (NoDirectText /\ SidecarUsable)
    /\ x_res.read =>
         x_res.text = IF x_fs[x_sidecar] = LockedFile THEN <<>>
                      ELSE x_fs[x_sidecar].pages
    /\ ~NoDirectText => x_res.text = DirectText(x_fs, x_pdf) /\ x_res.text # <<>>

\* C15 amended: the sidecar is read iff the PDF gives no text and a sidecar path
\* was given and exists; the result is then the content of the sidecar with its
\* leading and trailing blank part stripped (the empty string when reading it
\* fails), the text of the PDF when that is non-empty, and the empty string in
\* every other case.
C15_SidecarStripped ==
  x_res.called =>
    /\ x_res.read <=> (NoDirectText /\ SidecarUsable)
    /\ x_res.read =>
         x_res.text = IF x_fs[x_sidecar] = LockedFile THEN <<>>
                      ELSE Strip(x_fs[x_sidecar].pages)
    /\ ~NoDirectText => x_res.text = DirectText(x_fs, x_pdf) /\ x_res.text # <<>>
    /\ (NoDirectText /\ ~SidecarUsable) => x_res.text = <<>>
    /\ x_res.text # <<>> => Head(x_res.text) # 0 /\ Last(x_res.text) # 0

\* an unreadable PDF whose sidecar starts with a blank line gave the text of
\* the sidecar without the blank line
C15_Witness ==
  /\ x_res.called /\ x_res.read
  /\ x_pdf \in DOMAIN x_fs /\ ~x_fs[x_pdf].open
  /\ x_fs[x_sidecar].pages = <<0, 5>> /\ x_res.text = <<5>>

----------------------------------------------------------------------------
(* Properties of iter_pdfs (SpecEnum) *)

\* the complete path string: the components joined by "/"
RECURSIVE PathString(_)
PathString(q) ==
  IF q = <<>> THEN <<>>
  ELSE IF Len(q) = 1 THEN Head(q)
  ELSE Head(q) \o <<"/">> \o PathString(Tail(q))

\* comparison of the complete path strings
StrLT(q, r) == NameLT(PathString(q), PathString(r))

PdfFilesBelow(root) ==
  {q \in DOMAIN e_fs : IsUnder(q, root) /\ q # root /\ Last(Name(q)) = ".pdf"}

PdfDirsBelow(root) ==
  {q \in e_ds : IsUnder(q, root) /\ q # root /\ Last(Name(q)) = ".pdf"}

\* C19 as stated: the empty list when the root does not exist; otherwise every
\* .pdf file below the root and nothing else, exactly once, in the order of the
\* complete path strings; every call on the unchanged tree returns the same list.
C19_FullStringOrder ==
  \A c \in 1..Len(e_calls) :
    /\ e_root \notin e_ds => e_calls[c] = <<>>
    /\ e_root \in e_ds =>
         /\ Range(e_calls[c]) = PdfFilesBelow(e_root)
         /\ Len(e_calls[c]) = Cardinality(PdfFilesBelow(e_root))
         /\ \A j, k \in 1..Len(e_calls[c]) :
              j < k => StrLT(e_calls[c][j], e_calls[c][k])
    /\ e_calls[c] = e_calls[1]

\* C19 amended: the empty list when the root does not exist; otherwise every
\* path below the root whose name ends in .pdf, file or directory, exactly
\* once, in the order of the paths compared component by component (every
\* component as a string); every call on the unchanged tree returns the same
\* list.
C19_ComponentOrder ==
  \A c \in 1..Len(e_calls) :
    /\ e_root \notin e_ds => e_calls[c] = <<>>
    /\ e_root \in e_ds =>
         /\ Range(e_calls[c]) = PdfFilesBelow(e_root) \cup PdfDirsBelow(e_root)
         /\ Len(e_calls[c])
              = Cardinality(PdfFilesBelow(e_root) \cup PdfDirsBelow(e_root))
         /\ \A j, k \in 1..Len(e_calls[c]) :
              j < k => PathLT(e_calls[c][j], e_calls[c][k])
    /\ e_calls[c] = e_calls[1]

\* two calls listed a/b.pdf before a.pdf, against the order of the complete
\* path strings
C19_Witness ==
  /\ Len(e_calls) = 2 /\ e_root \in e_ds
  /\ \E j \in 1..Len(e_calls[2]) - 1 :
       /\ e_calls[2][j] = << <<"pdf">>, <<"a">>, <<"b", ".pdf">> >>
       /\ e_calls[2][j + 1] = << <<"pdf">>, <<"a", ".pdf">> >>
       /\ StrLT(e_calls[2][j + 1], e_calls[2][j])

----------------------------------------------------------------------------
(* Properties of AppPaths (SpecRoots) *)

\* the value the configuration gives for a root of the current location
ValueOf(k) ==
  IF a_settings.location_defined THEN a_settings.location[k] ELSE NoValue

RefersToDefinedMount(v) == v.form = "mount" /\ v.alias \in DOMAIN a_settings.mounts

\* C20 as stated: a root without a value resolves to its default under data/;
\* a value that refers to a defined mount alias resolves to a path under the
\* directory of the alias; a root whose directory cannot be created is still
\* recorded.
C20_ResolveRoots ==
  a_roots # NoRoots =>
    \A k \in RootKeys :
      /\ ValueOf(k).form = "none" => a_roots[k] = DefaultRoot(k)
      /\ RefersToDefinedMount(ValueOf(k)) =>
           IsUnder(a_roots[k], a_settings.mounts[ValueOf(k).alias])
      /\ a_roots[k] # <<>>
      /\ k \notin a_fail => a_roots[k] \in a_dirs

\* C20 amended: a root without a value resolves to its default under data/; a
\* value mount:<alias>/<sub> whose alias is defined resolves to <sub> under the
\* directory of the alias, while a mount value without "/" after the alias, or
\* whose alias is not defined, resolves to the default; a root whose directory
\* cannot be created is still recorded.
C20_ResolveRootsMountSub ==
  a_roots # NoRoots =>
    \A k \in RootKeys :
      /\ ValueOf(k).form = "none" => a_roots[k] = DefaultRoot(k)
      /\ (RefersToDefinedMount(ValueOf(k)) /\ ValueOf(k).slash) =>
           a_roots[k] = a_settings.mounts[ValueOf(k).alias] \o ValueOf(k).sub
      /\ (ValueOf(k).form = "mount"
            /\ ~(RefersToDefinedMount(ValueOf(k)) /\ ValueOf(k).slash)) =>
           a_roots[k] = DefaultRoot(k)
      /\ a_roots[k] # <<>>
      /\ k \notin a_fail => a_roots[k] \in a_dirs

\* the PDF root was taken from a mount, the library root from its default,
\* and the directory of the converted root could not be created
C20_Witness ==
  /\ a_roots # NoRoots
  /\ a_roots["pdf_root"] = ext_dir \o << <<"pdf">> >>
  /\ a_roots["library_root"] = data_dir \o default_library
  /\ "converted_root" \in a_fail
  /\ a_roots["converted_root"] \notin a_dirs
  /\ a_roots["converted_root"] # <<>>

----------------------------------------------------------------------------
(* Properties of the whole page on a disk written earlier (SpecDisk) *)

\* a rerun of the script: it starts while no script runs and is counted
RerunStep == pc = "idle" /\ runs' = runs + 1

\* C21: abort before start. When the source root of a rerun does not exist, the
\* script stops before planning with the one warning of line 129: the plan and
\* the listing stay empty, so nothing is classified; no OCR call, no text
\* extraction and no write is made, no file or directory changes, and no
\* counter or log entry is recorded.
C21_AbortBeforeStart ==
  [][ (RerunStep /\ ~Exists(files, dirs, src_root)) =>
        /\ msg' = "no_target" /\ pc' = "idle"
        /\ src_files' = <<>> /\ rows' = <<>>
        /\ ocr_hist' = <<>> /\ ext_hist' = <<>> /\ writes' = <<>>
        /\ files' = files /\ dirs' = dirs
        /\ logs' = <<>> /\ ok' = 0 /\ ng' = 0 /\ skip' = 0
        /\ text_ok' = 0 /\ text_skip' = 0 /\ text_ng' = 0
        /\ prev' = prev ]_vars

C21_Witness ==
  /\ ~Exists(files, dirs, src_root) /\ runs = 1 /\ msg = "no_target"
  /\ pc = "idle" /\ src_a \in DOMAIN files

----------------------------------------------------------------------------
(* Properties of the sampling of quick_pdf_info (SpecClassify) *)

Classified == c_res # NoInfo /\ c_doc.open

\* C22 as stated: for a document with n <= 0 pages the result is IMAGE_PDF with
\* ratio 0; for n >= 1 and sample_pages >= 1 the number of sampled pages is
\* min(sample_pages, n) and at least 1, only the first pages are sampled, and
\* the reported sampled-page count does not exceed the page count.
C22_SamplingRule ==
  (Classified /\ c_sample >= 1) =>
    LET n == Len(c_doc.pages) IN
      /\ n <= 0 => c_res.kind = "IMAGE_PDF" /\ c_res.text_ratio.num = 0
      /\ n >= 1 => /\ c_res.checked = Min(c_sample, n) /\ c_res.checked >= 1
                   /\ c_res.text_ratio.num = TextfulAmong(c_doc, c_res.checked)
                   /\ c_res.checked <= c_res.pages

\* C22 amended: an opened document with 0 pages gets ratio 0 over one sampled
\* page (when sample_pages >= 1), so the reported sampled-page count is 1 while
\* the page count is 0, and it is IMAGE_PDF exactly when the threshold is
\* positive; for n >= 1 the sampled pages are the first min(sample_pages, n),
\* at least 1 when sample_pages >= 1, and never more than the page count.
C22_SamplingRuleZeroPages ==
  Classified =>
    LET n == Len(c_doc.pages) IN
      /\ c_res.pages = n
      /\ n = 0 => /\ c_res.text_ratio.num = 0
                  /\ c_res.checked = Min(c_sample, 1)
                  /\ (c_res.kind = "IMAGE_PDF") <=> c_thr.num > 0
      /\ n >= 1 => /\ c_res.checked = Min(c_sample, n)
                   /\ c_sample >= 1 => c_res.checked >= 1
                   /\ c_res.text_ratio.num = TextfulAmong(c_doc, c_res.checked)
                   /\ c_res.text_ratio.den = Max(c_res.checked, 1)
                   /\ c_res.checked <= c_res.pages

\* a document with 0 pages classified under threshold 0 with the default sample
C22_Witness ==
  /\ Classified /\ Len(c_doc.pages) = 0 /\ c_sample = DefaultSamplePages
  /\ c_thr.num = 0 /\ c_res.kind = "TEXT_PDF" /\ c_res.checked = 1

\* the document with the page count and the textful pattern of doc on its
\* first s pages, and nothing else of doc
Pattern(doc, s) ==
  IF ~doc.open THEN doc
  ELSE [doc EXCEPT !.pages =
          [k \in 1..Len(doc.pages) |->
             IF k <= s /\ doc.pages[k] >= MinTextLen THEN MinTextLen ELSE 0]]

----------------------------------------------------------------------------
(* Properties of the cached classifier (SpecCache) *)

\* what quick_pdf_info computes from the file as it is now
FreshInfo ==
  quick_pdf_info(k_file.doc, k_file.mtime, DefaultSamplePages, DefaultThreshold)

\* no two different contents of the path have carried the same time stamp
StampsIdentifyContent ==
  \A v, w \in k_versions : v.mtime = w.mtime => v.doc = w.doc

\* C24 as stated: after any sequence of modifications, each changing the
\* modification time, and plan runs, the classification a plan uses for the
\* file is the one computed from its current content.
C24_CacheFresh == k_used # NoInfo => k_used = FreshInfo

\* C24 amended: the classification a plan uses is the one computed from the
\* current content provided no two different contents of the file have carried
\* the same modification time; an entry stored under a time stamp that the
\* file carries again is served for the new content.
C24_CacheFreshUniqueStamps ==
  (k_used # NoInfo /\ StampsIdentifyContent) => k_used = FreshInfo

\* a plan after a modification: the entry of the earlier version is in the
\* cache and the plan got another result, that of the current content
C24_Witness ==
  /\ k_used # NoInfo /\ StampsIdentifyContent /\ Cardinality(k_versions) = 2
  /\ Cardinality(DOMAIN k_cache) = 2
  /\ \E key \in DOMAIN k_cache : k_cache[key] # k_used
  /\ k_used = FreshInfo

----------------------------------------------------------------------------
(* Properties of the options handed to the two OCR tiers (SpecOcr) *)

HasFlag(cmd, flag) == \E k \in 1..Len(cmd) : cmd[k] = flag

\* the word that follows the option on the command line
ArgAfter(cmd, flag) == cmd[(CHOOSE k \in 1..Len(cmd) : cmd[k] = flag) + 1]

\* C25: tier equivalence of the OCR options. For every option set the keyword
\* arguments of the in-process call and the command line of the subprocess
\* carry the same settings: the given language, optimize level and job count,
\* output type pdf, deskew, clean and forced OCR on (text is never skipped),
\* page rotation present exactly when rotate_pages is true, a sidecar argument
\* present exactly when a sidecar path was given, and the same source and
\* destination.
C25_TierEquivalence ==
  o_pc # "call" =>
    LET o   == o_env.opts
        kw  == PyKwargs(o)
        cmd == CliCmd(o)
    IN  /\ kw.language = o.lang /\ ArgAfter(cmd, "--language") = o.lang
        /\ kw.optimize = o.optimize
        /\ ArgAfter(cmd, "--optimize") = ToString(o.optimize)
        /\ kw.jobs = o.jobs /\ ArgAfter(cmd, "--jobs") = ToString(o.jobs)
        /\ kw.output_type = "pdf" /\ ArgAfter(cmd, "--output-type") = "pdf"
        /\ kw.deskew /\ HasFlag(cmd, "--deskew")
        /\ kw.clean /\ HasFlag(cmd, "--clean")
        /\ kw.force_ocr /\ HasFlag(cmd, "--force-ocr")
        /\ ~kw.skip_text /\ ~HasFlag(cmd, "--skip-text")
        /\ ("rotate_pages" \in DOMAIN kw) <=> o.rotate_pages
        /\ HasFlag(cmd, "--rotate-pages") <=> o.rotate_pages
        /\ o.rotate_pages => kw.rotate_pages
        /\ ("sidecar" \in DOMAIN kw) <=> o.sidecar
        /\ HasFlag(cmd, "--sidecar") <=> o.sidecar
        /\ o.sidecar => ArgAfter(cmd, "--sidecar") = kw.sidecar
        /\ SubSeq(cmd, Len(cmd) - 1, Len(cmd)) = PyArgs

\* both tiers were called with rotation, a sidecar and the highest optimize level
C25_Witness ==
  /\ o_pc # "call" /\ o_trace = <<"python", "cli">>
  /\ o_env.opts.rotate_pages /\ o_env.opts.sidecar /\ o_env.opts.optimize = 3
  /\ "sidecar" \in DOMAIN PyKwargs(o_env.opts)
  /\ HasFlag(CliCmd(o_env.opts), "--sidecar")

----------------------------------------------------------------------------
(* Properties of the plan against its execution (SpecDisk) *)

ExecStep == pc = "exec" /\ i <= Len(rows)

\* number of run_ocr calls of this run made for the source p
OcrCallsFor(p) == Cardinality({k \in 1..Len(ocr_hist) : ocr_hist[k].src = p})

\* C26 as stated: a task is skipped during execution iff its planned status is
\* OUTPUT_EXISTS_SKIP, and run_ocr is invoked exactly once for every task whose
\* planned status is UNCONVERTED or OUTPUT_EXISTS_OVERWRITE.
C26_PlanAgreesWithExecution ==
  [][ /\ ExecStep =>
           /\ (skip' = skip + 1) <=> (rows[i].status = "OUTPUT_EXISTS_SKIP")
           /\ (Len(ocr_hist') = Len(ocr_hist) + 1)
                 <=> (rows[i].status \in {"UNCONVERTED", "OUTPUT_EXISTS_OVERWRITE"})
      /\ OcrLoopEnd =>
           \A k \in 1..Len(rows) :
             OcrCallsFor(rows[k].src)
               = IF rows[k].status = "OUTPUT_EXISTS_SKIP" THEN 0 ELSE 1 ]_vars

----------------------------------------------------------------------------
(* Properties of the page with nested roots (SpecNested) *)

ConvertedTwice(p) ==
  Len(Stem(p)) >= 2 /\ Last(Stem(p)) = "_converted"
    /\ Last(Front(Stem(p))) = "_converted"

\* C27: converted outputs are never re-converted. With the converted root equal
\* to the source root or inside it, after any sequence of runs: no planned task
\* has a source whose stem ends in _converted, no file or destination named
\* *_converted_converted.pdf exists or is planned, and every planned source is
\* one of the PDFs the user put in the tree, never a file the batch produced
\* (every destination has a stem ending in _converted), so the batch adds
\* nothing to the plans from run to run.
C27_NoReconversion ==
  /\ \A k \in 1..Len(rows) :
       /\ ~EndsWithConverted(Stem(rows[k].src))
       /\ ~ConvertedTwice(rows[k].dst)
       /\ rows[k].src \in {src_a, src_b}
       /\ EndsWithConverted(Stem(rows[k].dst))
  /\ \A p \in DOMAIN files : ~ConvertedTwice(p)
  /\ \A h \in 1..Len(ocr_hist) :
       /\ ~EndsWithConverted(Stem(ocr_hist[h].src))
       /\ EndsWithConverted(Stem(ocr_hist[h].dst))
       /\ ~Planned(ocr_hist[h].dst)

\* the second run lists the converted PDF that the first run wrote inside the
\* source tree and plans its source again, not the converted PDF
C27_Witness ==
  /\ runs = 2 /\ pc = "planned" /\ prev # << >>
  /\ \E k \in 1..Len(rows) :
       /\ rows[k].src \in DOMAIN prev /\ prev[rows[k].src] = "ok"
       /\ rows[k].dst \in Range(src_files)
       /\ rows[k].status = "OUTPUT_EXISTS_OVERWRITE"
  /\ \A p \in Range(src_files) : EndsWithConverted(Stem(p)) => ~Planned(p)

----------------------------------------------------------------------------
(* Properties of the text viewer against the export (SpecDisk) *)

\* the export of this run wrote the text of the listed file number j: its
\* target was written and no earlier listed file has the same target
WroteTextFor(j) ==
  /\ ExpectedTarget(src_files[j]) \in Range(writes)
  /\ \A h \in 1..(j - 1) : ExpectedTarget(src_files[h]) # ExpectedTarget(src_files[j])

\* C28: exported text is found again. For every listed PDF for which the export
\* has written a text file, from the PDF itself or from its converted
\* counterpart, the viewer's lookup for that PDF with the same three roots
\* finds an existing file, and it is the file the export wrote for that PDF.
C28_ViewerFindsExport ==
  ExportLoopEnd =>
    \A j \in 1..Len(src_files) :
      WroteTextFor(j) =>
        ViewerChosen(files, dirs,
                     ViewerCandidates(src_files[j], src_root, dst_root, txt_root))
          = ExpectedTarget(src_files[j])

\* positions in writes of the text files written by the export of this run
TextWrites ==
  {k \in 1..Len(writes) :
     \E p \in Range(src_files) : writes[k] = ExpectedTarget(p)}

\* C29: text export accounting. At the end of every export the three counters
\* sum to the number of listed files, the success counter is the number of
\* text files the run created, and no target is written twice; every step
\* that counts a success creates exactly one file, its target, which did not
\* exist before, and every other step leaves the files as they are.
C29_ExportAccounting ==
  [][ /\ ExportLoopEnd =>
           /\ text_ok + text_skip + text_ng = Len(src_files)
           /\ text_ok = Cardinality(TextWrites)
           /\ text_ok = Cardinality({writes[k] : k \in TextWrites})
           /\ \A k \in TextWrites : writes[k] \in DOMAIN files
      /\ ExportStep =>
           LET t == ExpectedTarget(src_files[i]) IN
             /\ text_ok' \in {text_ok, text_ok + 1}
             /\ text_ok' = text_ok + 1 =>
                   /\ ~Exists(files, dirs, t)
                   /\ DOMAIN files' = DOMAIN files \cup {t}
                   /\ \A q \in DOMAIN files : files'[q] = files[q]
             /\ text_ok' = text_ok => files' = files ]_vars

\* an export over two listed files with the same target: the first creates
\* the text file, the second finds it and is skipped
C29_Witness ==
  /\ ExportLoopEnd /\ Len(src_files) = 2
  /\ ExpectedTarget(src_files[1]) = ExpectedTarget(src_files[2])
  /\ text_ok = 1 /\ text_skip = 1 /\ text_ng = 0
  /\ Cardinality(TextWrites) = 1

----------------------------------------------------------------------------
(* Properties of planning (Spec) *)

\* C30: planning has no file side effects. A rerun up to the plan calls neither
\* run_ocr nor the extractor and creates, changes or removes no file; it
\* removes no directory, and every directory it creates is the parent
\* directory of the destination of a planned task (or an ancestor that mkdir
\* makes on the way), so none is created for a file dropped from the plan.
C30_PlanningFrame ==
  [][ RerunStep =>
        /\ files' = files
        /\ ocr_hist' = <<>> /\ ext_hist' = <<>> /\ writes' = <<>>
        /\ dirs \subseteq dirs'
        /\ \A k \in 1..Len(rows') : Parent(rows'[k].dst) \in dirs'
        /\ \A d \in dirs' \ dirs :
             \E k \in 1..Len(rows') : d \in Ancestors(Parent(rows'[k].dst)) ]_vars

\* a plan with a task whose destination folder was made, while the folder for
\* the converted file of a dropped text PDF was not
C30_Witness ==
  /\ pc = "planned" /\ runs = 1 /\ Len(rows) = 1
  /\ Parent(rows[1].dst) \in dirs
  /\ \E p \in Range(src_files) :
       /\ ~Planned(p) /\ ~EndsWithConverted(Stem(p)) /\ files[p].open
       /\ Parent(make_converted_path(p, src_root, dst_root)) \notin dirs

====
